---- MODULE Spec2Model ----
(***************************************************************************)
(* A model of the relationship discovery engine, the causation analyzer    *)
(* and the knowledge graph of the article relationship engine.             *)
(*                                                                         *)
(* Units: confidences and similarities are hundredths (0.6 is 60), impact  *)
(* scores are tenths (5.0 is 50), article timestamps are hours, the clock  *)
(* of the cache is seconds.  None is written 0 where the code treats the   *)
(* two alike (max_relationships, max_depth).                               *)
(***************************************************************************)
EXTENDS Integers, Sequences, FiniteSets, TLC

\* ------------------------------------------------------------------------
\* Configuration (src/src/config.py)
\* ------------------------------------------------------------------------

RELATIONSHIP_TYPES ==
    {"CAUSES", "TRIGGERS_RETALIATION", "CREATES_OPPORTUNITY",
     "DISRUPTS_SUPPLY_CHAIN", "SHIFTS_COMPETITION", "AFFECTS_REGULATION",
     "IMPACTS_FINANCE", "AMPLIFIES_TREND", "REVERSES_TREND"}

RELATIONSHIP_CONFIDENCE_THRESHOLD == 60

TEMPORAL_WINDOW_DAYS == 30

SIMILARITY_THRESHOLD == 70

CACHE_DIR == "cache"

CACHE_TTL_SECONDS == 3600

MAX_RELATIONSHIPS_PER_ARTICLE == 20

BATCH_SIZE_FOR_GPT == 5

MAX_CHAIN_DEPTH == 5

ENABLE_FULL_SCAN == TRUE

\* IMPACT_LEVELS: the propagation factor of every level, in tenths.
IMPACT_LEVELS ==
    [level \in {"PRIMARY", "SECONDARY", "TERTIARY", "QUATERNARY"} |->
        [propagation_factor |-> CASE level = "PRIMARY" -> 10
                                  [] level = "SECONDARY" -> 7
                                  [] level = "TERTIARY" -> 4
                                  [] level = "QUATERNARY" -> 2]]

CAUSATION_PATTERNS ==
    << [name |-> "Trade War Cascade",
        sequence |-> <<"tariff", "retaliation", "opportunity", "realignment">>],
       [name |-> "Regulatory Ripple",
        sequence |-> <<"regulation", "compliance", "consolidation", "innovation">>],
       [name |-> "Tech Disruption",
        sequence |-> <<"breakthrough", "threat", "pivot", "acquisition">>],
       [name |-> "Financial Contagion",
        sequence |-> <<"crisis", "spread", "intervention", "recovery">>],
       [name |-> "Supply Shock",
        sequence |-> <<"disruption", "shortage", "substitution", "normalization">>] >>

\* ------------------------------------------------------------------------
\* Bounds of the model
\* ------------------------------------------------------------------------

\* Classifier calls made for callers of discover_relationships, over a whole
\* behaviour, that return a parseable answer; every later call fails (quota).
MaxAnswers == 1

\* The same for the calls made while the causation graph is built.
MaxBuildAnswers == 2

\* Direct calls of discover_relationships that are recorded.
MaxCalls == 2

\* Entries of one classifier answer.
MaxEntries == 2

\* The clock runs from 0 to MaxClock in steps of TickSeconds.
MaxClock == 3600

TickSeconds == 1800

\* The causation graph is built for corpora of at most this many articles.
MaxGraphArticles == 3

\* The articles of the corpus on which graphs of every shape are built.
MaxChainArticles == 5

\* ------------------------------------------------------------------------
\* General helpers
\* ------------------------------------------------------------------------

Min(a, b) == IF a <= b THEN a ELSE b

Abs(a) == IF a < 0 THEN -a ELSE a

Range(s) == {s[i] : i \in 1..Len(s)}

RECURSIVE SeqsUpTo(_, _)
SeqsUpTo(S, n) ==
    IF n = 0 THEN {<<>>}
    ELSE LET shorter == SeqsUpTo(S, n - 1)
         IN  shorter \cup {Append(s, x) : s \in {q \in shorter : Len(q) = n - 1}, x \in S}

\* list.sort(key=..., reverse=True) on a sequence of <<key, item>> pairs:
\* descending by key, equal keys keep their order (the sort is stable).
RECURSIVE InsertDesc(_, _)
InsertDesc(sorted, p) ==
    IF sorted = <<>> THEN <<p>>
    ELSE IF Head(sorted)[1] >= p[1]
         THEN <<Head(sorted)>> \o InsertDesc(Tail(sorted), p)
         ELSE <<p>> \o sorted

RECURSIVE SortPairsDesc(_)
SortPairsDesc(pairs) ==
    IF pairs = <<>> THEN <<>>
    ELSE InsertDesc(SortPairsDesc(SubSeq(pairs, 1, Len(pairs) - 1)), pairs[Len(pairs)])

\* ------------------------------------------------------------------------
\* The Article Store
\* ------------------------------------------------------------------------

Article(id, title, hours, category, entities, impact, embedding) ==
    [id |-> id, title |-> title, content |-> title \o <<"report">>, timestamp |-> hours,
     category |-> category, entities |-> entities, impact_score |-> impact,
     embedding |-> embedding]

\* Three articles, a day apart; the third predates the first.
SmallCorpus ==
    << Article(1, <<"Ford", "stock", "drop">>, 2400, "Automotive",
               << <<"Ford">>, <<"Mexico">> >>, 80, <<100, 0>>),
       Article(2, <<"Mexican", "peso", "decline">>, 2424, "Finance",
               << <<"Mexico">> >>, 60, <<60, 80>>),
       Article(3, <<"Tariff", "retaliation">>, 2376, "Finance",
               <<>>, 50, <<0, 100>>) >>

\* Eight articles around article 1: six lie in its temporal window (two
\* classifier batches), article 6 is 30 days and 23 hours later, article 7
\* exactly 30 days earlier, article 8 is 30 days and 1 hour earlier.
LargeCorpus ==
    << Article(1, <<"Ford", "stock", "drop">>, 2400, "Automotive",
               << <<"Ford">>, <<"Mexico">> >>, 80, <<100, 0>>),
       Article(2, <<"Mexican", "peso", "decline">>, 2640, "Finance",
               << <<"Mexico">> >>, 60, <<60, 80>>),
       Article(3, <<"Tariff", "retaliation">>, 2160, "Finance",
               <<>>, 50, <<0, 100>>),
       Article(4, <<"Chip", "shortage">>, 2880, "Technology",
               << <<"TSMC">> >>, 70, <<80, 60>>),
       Article(5, <<"Supply", "disruption">>, 1920, "Manufacturing",
               << <<"Ford">> >>, 40, <<60, 80>>),
       Article(6, <<"Regulation", "compliance">>, 3143, "Government",
               <<>>, 30, <<0, 100>>),
       Article(7, <<"Crisis", "spread">>, 1680, "Finance",
               << <<"Mexico">>, <<"Ford">> >>, 90, <<100, 0>>),
       Article(8, <<"Breakthrough">>, 1679, "Technology",
               <<>>, 20, <<0, 100>>) >>

Corpora == {SmallCorpus, LargeCorpus}

\* The first five articles of LargeCorpus: every article is a candidate of
\* every other, in one classifier batch.
ChainCorpus == SubSeq(LargeCorpus, 1, MaxChainArticles)

GraphCorpora == {SmallCorpus, ChainCorpus}

\* Four articles for the ranking of starts and chains: the query "Ford" is
\* in the title of article 1 and in three entities of article 2; articles 2
\* and 3 have the same impact score and both follow article 1.
RankingCorpus ==
    << Article(1, <<"Ford", "stock", "drop">>, 2400, "Automotive",
               << <<"Mexico">> >>, 80, <<100, 0>>),
       Article(2, <<"Supply", "disruption">>, 2424, "Manufacturing",
               << <<"Ford", "Motor">>, <<"Ford", "Credit">>, <<"Ford", "Europe">> >>,
               60, <<100, 0>>),
       Article(3, <<"Chip", "shortage">>, 2448, "Technology",
               << <<"TSMC">> >>, 60, <<100, 0>>),
       Article(4, <<"Tariff", "retaliation">>, 2376, "Finance",
               <<>>, 50, <<100, 0>>) >>

ArticleIds(store) == {store[i].id : i \in 1..Len(store)}

\* An id no corpus holds.
MissingId == Len(LargeCorpus) + 1

\* self.articles[article_id]
ArticleOf(store, id) == store[CHOOSE i \in 1..Len(store) : store[i].id = id]

\* ------------------------------------------------------------------------
\* Candidate Selector (relationship_engine.py, _find_candidate_articles)
\* ------------------------------------------------------------------------

\* (article_timestamp - source_timestamp).days: timedelta normalises to whole
\* days rounded towards minus infinity.
TimedeltaDays(article_hours, source_hours) == (article_hours - source_hours) \div 24

\* np.dot of two embeddings.
Similarity(a, b) == (a.embedding[1] * b.embedding[1] + a.embedding[2] * b.embedding[2]) \div 100

OverlapCount(source, article) == Cardinality(Range(source.entities) \cap Range(article.entities))

\* max(len(source_entities), 1), the denominator of entity_overlap.
OverlapDenominator(source) == IF Range(source.entities) = {} THEN 1 ELSE Cardinality(Range(source.entities))

\* The temporal filter: time_diff > TEMPORAL_WINDOW_DAYS skips the article.
InTemporalWindow(source, article) ==
    Abs(TimedeltaDays(article.timestamp, source.timestamp)) <= TEMPORAL_WINDOW_DAYS

\* entity_overlap > 0 or similarity > SIMILARITY_THRESHOLD or ENABLE_FULL_SCAN
IsCandidate(source, article) ==
    /\ article.id # source.id
    /\ InTemporalWindow(source, article)
    /\ \/ OverlapCount(source, article) > 0
       \/ Similarity(source, article) > SIMILARITY_THRESHOLD
       \/ ENABLE_FULL_SCAN

\* entity_overlap + embedding_similarity, times 100 * OverlapDenominator(source)
\* (one denominator for all candidates of a source, so the order is exact).
RelevanceKey(source, article) ==
    OverlapCount(source, article) * 100 + Similarity(source, article) * OverlapDenominator(source)

FindCandidateArticles(store, source) ==
    LET Keep(a) == IsCandidate(source, a)
        kept == SelectSeq(store, Keep)
        pairs == [i \in 1..Len(kept) |-> <<RelevanceKey(source, kept[i]), kept[i]>>]
        sorted == SortPairsDesc(pairs)
    IN  [i \in 1..Len(sorted) |-> sorted[i][2]]

\* ------------------------------------------------------------------------
\* The Causal Classifier (external): what one call may come back with
\* ------------------------------------------------------------------------

Edge(target, type, confidence) ==
    [target_id |-> target, type |-> type, confidence |-> confidence,
     explanation |-> "because", impact_level |-> "PRIMARY"]

\* Well-formed edges: a taxonomy type, a confidence in [0.6, 1], a target
\* among the first articles of the corpus (the source's own id among them).
WellFormedEntries ==
    {Edge(1, "CAUSES", 90), Edge(2, "CAUSES", 90), Edge(3, "IMPACTS_FINANCE", 60)}

\* Entries a classifier that is not trusted may also return: a confidence
\* below the threshold, a type outside the taxonomy with a confidence above
\* 1, a target that is no article, and an entry without its confidence.
DeviantEntries ==
    {Edge(2, "CAUSES", 50), Edge(3, "RELATED_TO", 150), Edge(MissingId, "CAUSES", 90),
     [target_id |-> 2, type |-> "CAUSES", explanation |-> "because"]}

ClassifierEntries == WellFormedEntries \cup DeviantEntries

\* Well-formed edges by source article, for graphs of many shapes: a chain
\* 1 -> 2 -> 3 -> 4 -> 5, a second edge 1 -> 2 of another type, a shortcut
\* 1 -> 3, and edges back to 1 and to 2 that close cycles.
GraphEntries ==
    << {Edge(2, "CAUSES", 90), Edge(2, "IMPACTS_FINANCE", 80),
        Edge(3, "DISRUPTS_SUPPLY_CHAIN", 70)},
       {Edge(3, "IMPACTS_FINANCE", 80), Edge(1, "TRIGGERS_RETALIATION", 90)},
       {Edge(4, "CAUSES", 90), Edge(1, "AMPLIFIES_TREND", 70)},
       {Edge(5, "CAUSES", 90), Edge(2, "SHIFTS_COMPETITION", 60)},
       {Edge(1, "REVERSES_TREND", 90)} >>

\* The answers to the one batch of a source article of store: up to
\* MaxEntries different edges of GraphEntries to articles of the store.
GraphAnswers(store, source_id) ==
    LET entries == IF source_id \in DOMAIN GraphEntries
                   THEN {e \in GraphEntries[source_id] : e.target_id \in ArticleIds(store)}
                   ELSE {}
    IN  {[kind |-> "json", relationships |-> r] :
            r \in {q \in SeqsUpTo(entries, MaxEntries) :
                      \A i, j \in 1..Len(q) : q[i] = q[j] => i = j}}

\* Well-formed edges by source article of RankingCorpus: article 1 relates to
\* articles 2 and 3 with the same type and confidence.
RankingEntries ==
    << {Edge(2, "CAUSES", 90), Edge(3, "CAUSES", 90)},
       {Edge(4, "IMPACTS_FINANCE", 80), Edge(3, "CAUSES", 90)},
       {Edge(4, "IMPACTS_FINANCE", 80)},
       {Edge(1, "TRIGGERS_RETALIATION", 70)} >>

\* The answers to the one batch of a source article of RankingCorpus: up to
\* MaxEntries different edges of RankingEntries, in either order.
RankingAnswers(source_id) ==
    {[kind |-> "json", relationships |-> r] :
        r \in {q \in SeqsUpTo(RankingEntries[source_id], MaxEntries) :
                  \A i, j \in 1..Len(q) : q[i] = q[j] => i = j}}

\* A parsed JSON answer {"relationships": [...]}.
ClassifierAnswers ==
    {[kind |-> "json", relationships |-> s] : s \in SeqsUpTo(ClassifierEntries, MaxEntries)}

\* The call raises (timeout, quota, API error), or its content is not JSON.
ClassifierFailures ==
    {[kind |-> "exception", relationships |-> <<>>],
     [kind |-> "unparseable", relationships |-> <<>>]}

\* ------------------------------------------------------------------------
\* Relationship (relationship_engine.py, lines 29-49)
\* ------------------------------------------------------------------------

RelationshipFields ==
    {"source_id", "target_id", "relationship_type", "confidence", "explanation",
     "impact_level", "discovered_at"}

RelationshipRequired ==
    {"source_id", "target_id", "relationship_type", "confidence", "explanation"}

\* Relationship(...) built from a classifier entry at time t.
Relationship(source_id, entry, t) ==
    [source_id |-> source_id, target_id |-> entry.target_id,
     relationship_type |-> entry.type, confidence |-> entry.confidence,
     explanation |-> entry.explanation,
     impact_level |-> IF "impact_level" \in DOMAIN entry THEN entry.impact_level ELSE "PRIMARY",
     discovered_at |-> t]

\* Relationship.to_dict
ToDict(r) ==
    [source_id |-> r.source_id, target_id |-> r.target_id, type |-> r.relationship_type,
     confidence |-> r.confidence, explanation |-> r.explanation,
     impact_level |-> r.impact_level, discovered_at |-> r.discovered_at]

\* Relationship(**d) accepts d: no unexpected keyword, no required field missing.
KeywordsAccepted(d) ==
    /\ DOMAIN d \subseteq RelationshipFields
    /\ RelationshipRequired \subseteq DOMAIN d

\* Relationship(**d), for an accepted d.
FromDict(d, t) ==
    [source_id |-> d.source_id, target_id |-> d.target_id,
     relationship_type |-> d.relationship_type, confidence |-> d.confidence,
     explanation |-> d.explanation,
     impact_level |-> IF "impact_level" \in DOMAIN d THEN d.impact_level ELSE "PRIMARY",
     discovered_at |-> IF "discovered_at" \in DOMAIN d THEN d.discovered_at ELSE t]

\* ------------------------------------------------------------------------
\* The Relationship Cache: a diskcache.Cache on CACHE_DIR, a map from key to
\* [value, expire_time].  Keys are <<kind, id, max_rels>>.
\* ------------------------------------------------------------------------

EmptyCache == [key \in {} |-> [value |-> <<>>, expire_time |-> 0]]

\* A variant of the key that leaves out the article: one row per limit.
CacheKeyWithoutArticle(article_id, max_rels) == <<"relationships", 0, max_rels>>

\* f"relationships_{article_id}_{max_rels}"
CacheKey(article_id, max_rels) == <<"relationships", article_id, max_rels>>

\* f"understanding_{query}" of the search engine, which opens the same kind
\* of cache; the query is not modelled.
UnderstandingKey == <<"understanding", 0, 0>>

\* `if self.cache`: the engine has a cache object and it is truthy.  A
\* diskcache.Cache defines __len__ (its number of rows, expired ones
\* included) and no __bool__, so an empty cache is falsy.
CacheEnabled(c) == CACHE_DIR # "" /\ Cardinality(DOMAIN c) > 0

\* `cache_key in self.cache`: a row that has not expired.
CacheContains(c, key, t) == key \in DOMAIN c /\ c[key].expire_time > t

\* self.cache.set(key, value, expire=ttl): writes the row, then culls the
\* rows whose expire_time has passed.
CacheSet(c, key, value, t, ttl) ==
    LET kept == {k \in DOMAIN c : c[k].expire_time >= t} \cup {key}
    IN  [k \in kept |-> IF k = key THEN [value |-> value, expire_time |-> t + ttl] ELSE c[k]]

\* ------------------------------------------------------------------------
\* Relationship Discovery Engine (relationship_engine.py)
\* ------------------------------------------------------------------------

\* A variant of the filter that keeps every entry that has a confidence.
PassesAnyConfidence(confidence) == TRUE

\* rel_data['confidence'] >= RELATIONSHIP_CONFIDENCE_THRESHOLD
PassesThreshold(confidence) == confidence >= RELATIONSHIP_CONFIDENCE_THRESHOLD

\* The loop over result.get('relationships', []): entries are read in order;
\* a missing key raises KeyError, which ends the loop with what was appended
\* so far (the except clause only logs).
RECURSIVE ParseRelationships(_, _, _, _)
ParseRelationships(source_id, entries, acc, t) ==
    IF entries = <<>> THEN [relationships |-> acc, failed |-> FALSE]
    ELSE LET e == Head(entries)
         IN  IF "confidence" \notin DOMAIN e
             THEN [relationships |-> acc, failed |-> TRUE]
             ELSE IF PassesThreshold(e.confidence)
                  THEN IF {"target_id", "type", "explanation"} \subseteq DOMAIN e
                       THEN ParseRelationships(source_id, Tail(entries),
                                               Append(acc, Relationship(source_id, e, t)), t)
                       ELSE [relationships |-> acc, failed |-> TRUE]
                  ELSE ParseRelationships(source_id, Tail(entries), acc, t)

\* A variant of the except clause that answers a failed call with a default
\* edge, at the threshold, to every candidate of the batch.
AnalyzeRelationshipsBatchWithDefault(source, batch, response, t) ==
    IF response.kind # "json"
    THEN [relationships |->
              [i \in 1..Len(batch) |->
                  Relationship(source.id,
                               [target_id |-> batch[i].id, type |-> "CAUSES",
                                confidence |-> RELATIONSHIP_CONFIDENCE_THRESHOLD,
                                explanation |-> "default"], t)],
          failed |-> TRUE]
    ELSE ParseRelationships(source.id, response.relationships, <<>>, t)

\* _analyze_relationships_batch: one classifier call and its parse, inside
\* try/except Exception.
AnalyzeRelationshipsBatch(source, batch, response, t) ==
    IF response.kind # "json"
    THEN [relationships |-> <<>>, failed |-> TRUE]
    ELSE ParseRelationships(source.id, response.relationships, <<>>, t)

\* candidates[i:i + BATCH_SIZE_FOR_GPT] for the n-th batch (n = 1, 2, ...).
BatchOf(candidates, n) ==
    SubSeq(candidates, (n - 1) * BATCH_SIZE_FOR_GPT + 1,
           Min(n * BATCH_SIZE_FOR_GPT, Len(candidates)))

\* len(range(0, len(candidates), BATCH_SIZE_FOR_GPT))
BatchCount(candidates) == (Len(candidates) + BATCH_SIZE_FOR_GPT - 1) \div BATCH_SIZE_FOR_GPT

\* A variant of the batch loop that classifies every batch, whatever was
\* gathered.
RECURSIVE ProcessBatchesToTheEnd(_, _, _, _, _, _, _, _)
ProcessBatchesToTheEnd(source, candidates, responses, max_rels, n, acc, log, t) ==
    IF n > BatchCount(candidates) THEN [relationships |-> acc, batches |-> log]
    ELSE LET batch == BatchOf(candidates, n)
             got == AnalyzeRelationshipsBatch(source, batch, responses[n], t)
             entry == [candidates |-> [i \in 1..Len(batch) |-> batch[i].id],
                       received |-> Len(responses[n].relationships),
                       failed |-> got.failed,
                       contributed |-> got.relationships]
         IN  ProcessBatchesToTheEnd(source, candidates, responses, max_rels, n + 1,
                                    acc \o got.relationships, Append(log, entry), t)

\* The batch loop of discover_relationships (lines 136-144), from batch n on:
\* the relationships gathered and, per batch classified, what came of it
\* (its candidates, the number of entries the classifier sent, whether the
\* call or its parse failed, the relationships it added).
RECURSIVE ProcessBatches(_, _, _, _, _, _, _, _)
ProcessBatches(source, candidates, responses, max_rels, n, acc, log, t) ==
    IF n > BatchCount(candidates) THEN [relationships |-> acc, batches |-> log]
    ELSE LET batch == BatchOf(candidates, n)
             got == AnalyzeRelationshipsBatch(source, batch, responses[n], t)
             all == acc \o got.relationships
             entry == [candidates |-> [i \in 1..Len(batch) |-> batch[i].id],
                       received |-> Len(responses[n].relationships),
                       failed |-> got.failed,
                       contributed |-> got.relationships]
         IN  IF Len(all) >= max_rels
             THEN [relationships |-> all, batches |-> Append(log, entry)]
             ELSE ProcessBatches(source, candidates, responses, max_rels, n + 1,
                                 all, Append(log, entry), t)

\* relationships.sort(key=lambda r: r.confidence, reverse=True)
SortByConfidence(relationships) ==
    LET pairs == [i \in 1..Len(relationships) |-> <<relationships[i].confidence, relationships[i]>>]
        sorted == SortPairsDesc(pairs)
    IN  [i \in 1..Len(sorted) |-> sorted[i][2]]

\* A variant of the slice that keeps the whole list.
TruncateNothing(relationships, max_rels) == relationships

\* relationships[:max_rels]
Truncate(relationships, max_rels) == SubSeq(relationships, 1, Min(max_rels, Len(relationships)))

\* max_relationships or MAX_RELATIONSHIPS_PER_ARTICLE
MaxRels(max_relationships) ==
    IF max_relationships = 0 THEN MAX_RELATIONSHIPS_PER_ARTICLE ELSE max_relationships

\* The cache write that ends a miss (lines 150-156).
CacheAfterMiss(c, key, relationships, t) ==
    IF CacheEnabled(c)
    THEN CacheSet(c, key, [i \in 1..Len(relationships) |-> ToDict(relationships[i])],
                  t, CACHE_TTL_SECONDS)
    ELSE c

\* [Relationship(**r) for r in self.cache[cache_key]]
FromCache(c, key, t) ==
    LET stored == c[key].value
    IN  IF \A i \in 1..Len(stored) : KeywordsAccepted(stored[i])
        THEN [outcome |-> "returned",
              result |-> [i \in 1..Len(stored) |-> FromDict(stored[i], t)]]
        ELSE [outcome |-> "TypeError", result |-> <<>>]

\* discover_relationships(article_id, max_relationships) on store, cache c,
\* at time t, with responses[n] what the classifier does on the n-th call:
\* the outcome (returned, or the exception raised), the list returned, the
\* cache afterwards, whether the cache was hit and the batches classified.
DiscoverRelationships(store, c, t, article_id, max_relationships, responses) ==
    IF article_id \notin ArticleIds(store)
    THEN [outcome |-> "ValueError", result |-> <<>>, cache |-> c, hit |-> FALSE,
          batches |-> <<>>]
    ELSE LET source == ArticleOf(store, article_id)
             max_rels == MaxRels(max_relationships)
             key == CacheKey(article_id, max_rels)
         IN  IF CacheEnabled(c) /\ CacheContains(c, key, t)
             THEN LET got == FromCache(c, key, t)
                  IN  [outcome |-> got.outcome, result |-> got.result, cache |-> c,
                       hit |-> TRUE, batches |-> <<>>]
             ELSE LET candidates == FindCandidateArticles(store, source)
                      run == ProcessBatches(source, candidates, responses, max_rels,
                                            1, <<>>, <<>>, t)
                      relationships == Truncate(SortByConfidence(run.relationships), max_rels)
                  IN  [outcome |-> "returned", result |-> relationships,
                       cache |-> CacheAfterMiss(c, key, relationships, t),
                       hit |-> FALSE, batches |-> run.batches]

\* The cache holds the list under the key, to expire a TTL after t.
CacheHolds(c, key, relationships, t) ==
    /\ key \in DOMAIN c
    /\ c[key] = [value |-> [i \in 1..Len(relationships) |-> ToDict(relationships[i])],
                 expire_time |-> t + CACHE_TTL_SECONDS]

\* The most classifier calls one discovery can make on a store.
MaxBatches(store) == (Len(store) - 1 + BATCH_SIZE_FOR_GPT - 1) \div BATCH_SIZE_FOR_GPT

\* ------------------------------------------------------------------------
\* Causation graph (causation_analyzer.py): an nx.DiGraph.  nodes and adj
\* keep insertion order; attr holds one attribute record per ordered pair.
\* ------------------------------------------------------------------------

EmptyGraph ==
    [nodes |-> <<>>, adj |-> [n \in {} |-> <<>>], attr |-> [e \in {} |-> 0]]

\* self.causation_graph.add_node(article_id, ...) for every article.
AddNodes(store) ==
    [nodes |-> [i \in 1..Len(store) |-> store[i].id],
     adj |-> [n \in ArticleIds(store) |-> <<>>],
     attr |-> [e \in {} |-> 0]]

\* DiGraph.add_edge(u, v, **attributes): a second edge for the same ordered
\* pair replaces the attributes of the first and keeps its place.
AddEdge(g, u, v, attributes) ==
    [nodes |-> g.nodes,
     adj |-> [g.adj EXCEPT ![u] = IF v \in Range(@) THEN @ ELSE Append(@, v)],
     attr |-> [e \in DOMAIN g.attr \cup {<<u, v>>} |->
                  IF e = <<u, v>> THEN attributes ELSE g.attr[e]]]

\* The edge attributes of a relationship (lines 149-165).
EdgeAttributes(store, rel) ==
    [relationship_type |-> rel.relationship_type, confidence |-> rel.confidence,
     explanation |-> rel.explanation,
     temporal_gap_days |-> TimedeltaDays(ArticleOf(store, rel.target_id).timestamp,
                                         ArticleOf(store, rel.source_id).timestamp)]

\* The loop over the relationships of one article (lines 148-165): the
\* lookup of an endpoint that is no article raises KeyError.
RECURSIVE AddRelationships(_, _, _)
AddRelationships(store, g, rels) ==
    IF rels = <<>> THEN [graph |-> g, error |-> "none"]
    ELSE LET rel == Head(rels)
         IN  IF rel.target_id \notin ArticleIds(store)
             THEN [graph |-> g, error |-> "KeyError"]
             ELSE AddRelationships(store,
                                   AddEdge(g, rel.source_id, rel.target_id,
                                           EdgeAttributes(store, rel)),
                                   Tail(rels))

\* ------------------------------------------------------------------------
\* Causation Chain Builder (causation_analyzer.py)
\* ------------------------------------------------------------------------

LowerCase ==
    [w \in {"Ford", "Mexican", "Mexico", "Tariff", "Chip", "Supply", "Regulation",
            "Crisis", "Breakthrough", "TSMC"} |->
        CASE w = "Ford" -> "ford" [] w = "Mexican" -> "mexican" [] w = "Mexico" -> "mexico"
          [] w = "Tariff" -> "tariff" [] w = "Chip" -> "chip" [] w = "Supply" -> "supply"
          [] w = "Regulation" -> "regulation" [] w = "Crisis" -> "crisis"
          [] w = "Breakthrough" -> "breakthrough" [] w = "TSMC" -> "tsmc"]

\* str.lower() of one word.
Lower(w) == IF w \in DOMAIN LowerCase THEN LowerCase[w] ELSE w

\* query.lower() in text.lower(), texts being sequences of words.
Occurs(query, text) ==
    \E i \in 0..(Len(text) - Len(query)) :
        \A j \in 1..Len(query) : Lower(text[i + j]) = Lower(query[j])

\* Twice the relevance score of _find_relevant_articles: 2 for the title, 1
\* for the content, 1.5 for every entity the query occurs in.
RelevanceScore(article, query) ==
    (IF Occurs(query, article.title) THEN 4 ELSE 0)
    + (IF Occurs(query, article.content) THEN 2 ELSE 0)
    + 3 * Cardinality({i \in 1..Len(article.entities) : Occurs(query, article.entities[i])})

FindRelevantArticles(store, query) ==
    LET Relevant(a) == RelevanceScore(a, query) > 0
        kept == SelectSeq(store, Relevant)
        pairs == [i \in 1..Len(kept) |-> <<RelevanceScore(kept[i], query), kept[i].id>>]
        sorted == SortPairsDesc(pairs)
    IN  [i \in 1..Len(sorted) |-> sorted[i][2]]

CausationNode(store, article_id) ==
    LET a == ArticleOf(store, article_id)
    IN  [article_id |-> article_id, title |-> a.title, timestamp |-> a.timestamp,
         impact_score |-> a.impact_score, entities |-> a.entities, category |-> a.category]

CausationLink(g, u, v) ==
    LET e == g.attr[<<u, v>>]
    IN  [source_id |-> u, target_id |-> v, relationship_type |-> e.relationship_type,
         confidence |-> e.confidence, explanation |-> e.explanation,
         temporal_gap_days |-> e.temporal_gap_days]

RECURSIVE SumSeq(_)
SumSeq(s) == IF s = <<>> THEN 0 ELSE Head(s) + SumSeq(Tail(s))

\* The links of a path: one per consecutive pair (range(len(path) - 1)).
LinksOfPath(g, path) == [i \in 1..(Len(path) - 1) |-> CausationLink(g, path[i], path[i + 1])]

\* A variant of the node loop that leaves out the article the path starts at.
NodesOfPathAfterStart(store, path) ==
    [i \in 1..(Len(path) - 1) |-> CausationNode(store, path[i + 1])]

\* The nodes of a path: one per article id (lines 281-291).
NodesOfPath(store, path) == [i \in 1..Len(path) |-> CausationNode(store, path[i])]

\* A variant of _create_chain_from_path whose confidence is the total of the
\* link confidences, not divided by their number.
CreateChainFromPathTotal(store, g, path) ==
    LET nodes == NodesOfPath(store, path)
        links == LinksOfPath(g, path)
    IN  [nodes |-> nodes, links |-> links, pattern_match |-> "None",
         total_impact |-> SumSeq([i \in 1..Len(nodes) |-> nodes[i].impact_score]),
         confidence |-> <<SumSeq([i \in 1..Len(links) |-> links[i].confidence]), 1>>,
         score |-> 0]

\* _create_chain_from_path, for a path of at least two ids (a shorter one
\* gives None).  confidence is the pair <<total_confidence, len(links)>>,
\* the mean as a fraction.
CreateChainFromPath(store, g, path) ==
    LET nodes == NodesOfPath(store, path)
        links == LinksOfPath(g, path)
    IN  [nodes |-> nodes, links |-> links, pattern_match |-> "None",
         total_impact |-> SumSeq([i \in 1..Len(nodes) |-> nodes[i].impact_score]),
         confidence |-> <<SumSeq([i \in 1..Len(links) |-> links[i].confidence]), Len(links)>>,
         score |-> 0]

\* The chains one dfs(current_id, path, visited, depth) call appends, in order.
RECURSIVE Dfs(_, _, _, _, _, _)
RECURSIVE DfsSuccessors(_, _, _, _, _, _, _)
\* A variant of dfs without the chain "at current depth": a chain is made
\* only where the depth limit is reached.
DfsAtLimitOnly(store, g, path, visited, depth, max_depth) ==
    IF depth >= max_depth
    THEN IF Len(path) >= 2 /\ Len(CreateChainFromPath(store, g, path).nodes) > 1
         THEN <<CreateChainFromPath(store, g, path)>> ELSE <<>>
    ELSE DfsSuccessors(store, g, g.adj[path[Len(path)]], path, visited, depth, max_depth)

Dfs(store, g, path, visited, depth, max_depth) ==
    IF depth >= max_depth
    THEN IF Len(path) >= 2 /\ Len(CreateChainFromPath(store, g, path).nodes) > 1
         THEN <<CreateChainFromPath(store, g, path)>> ELSE <<>>
    ELSE DfsSuccessors(store, g, g.adj[path[Len(path)]], path, visited, depth, max_depth)
         \o (IF Len(path) > 1 THEN <<CreateChainFromPath(store, g, path)>> ELSE <<>>)

DfsSuccessors(store, g, successors, path, visited, depth, max_depth) ==
    IF successors = <<>> THEN <<>>
    ELSE LET successor == Head(successors)
         IN  (IF successor \notin visited
              THEN Dfs(store, g, Append(path, successor), visited \cup {successor},
                       depth + 1, max_depth)
              ELSE <<>>)
             \o DfsSuccessors(store, g, Tail(successors), path, visited, depth, max_depth)

TraceCausationFromArticle(store, g, start_id, max_depth) ==
    Dfs(store, g, <<start_id>>, {start_id}, 0, max_depth)

PathKey(chain) == [i \in 1..Len(chain.nodes) |-> chain.nodes[i].article_id]

\* _deduplicate_chains: the first chain of every node-id sequence is kept.
DeduplicateChains(chains) ==
    LET First(i) == \A j \in 1..(i - 1) : PathKey(chains[j]) # PathKey(chains[i])
        keep == {i \in 1..Len(chains) : First(i)}
        Nth(n) == CHOOSE i \in keep : Cardinality({j \in keep : j < i}) = n - 1
    IN  [n \in 1..Cardinality(keep) |-> chains[Nth(n)]]

RECURSIVE Power(_, _)
Power(b, n) == IF n = 0 THEN 1 ELSE b * Power(b, n - 1)

\* chain.score of _rank_chains times 187500000 (exact for chains of 2 to 6
\* nodes): 0.4 * mean impact + 0.3 * mean confidence
\* + 0.2 * min(len(nodes) / 3, 1) + 0.1 * 0.8 ** (links with a negative gap).
ChainScore(chain) ==
    LET n == Len(chain.nodes)
        backwards == Cardinality({i \in 1..(n - 1) : chain.links[i].temporal_gap_days < 0})
    IN  chain.total_impact * (7500000 \div n)
        + chain.confidence[1] * (562500 \div chain.confidence[2])
        + (IF n < 3 THEN 12500000 * n ELSE 37500000)
        + (18750000 \div Power(5, backwards)) * Power(4, backwards)

\* A variant of _rank_chains that scores every chain and leaves the list in
\* the order the traces found it.
RankChainsUnsorted(chains) ==
    [i \in 1..Len(chains) |-> [chains[i] EXCEPT !.score = ChainScore(chains[i])]]

\* _rank_chains: scores every chain and sorts by score, descending.
RankChains(chains) ==
    LET scored == [i \in 1..Len(chains) |-> [chains[i] EXCEPT !.score = ChainScore(chains[i])]]
        sorted == SortPairsDesc([i \in 1..Len(scored) |-> <<scored[i].score, scored[i]>>])
    IN  [i \in 1..Len(sorted) |-> sorted[i][2]]

\* The concepts of one title: every keyword of every pattern, in pattern
\* order, that occurs in the title.
RECURSIVE ConceptsOfTitle(_, _, _)
ConceptsOfTitle(title, p, c) ==
    IF p > Len(CAUSATION_PATTERNS) THEN <<>>
    ELSE IF c > Len(CAUSATION_PATTERNS[p].sequence) THEN ConceptsOfTitle(title, p + 1, 1)
    ELSE (IF Occurs(<<CAUSATION_PATTERNS[p].sequence[c]>>, title)
          THEN <<CAUSATION_PATTERNS[p].sequence[c]>> ELSE <<>>)
         \o ConceptsOfTitle(title, p, c + 1)

RECURSIVE ChainConcepts(_)
ChainConcepts(nodes) ==
    IF nodes = <<>> THEN <<>>
    ELSE ConceptsOfTitle(Head(nodes).title, 1, 1) \o ChainConcepts(Tail(nodes))

\* matches of one pattern: the positions i at which the i-th keyword of the
\* pattern is the i-th concept of the chain.
PatternMatches(pattern, concepts) ==
    Cardinality({i \in 1..Len(pattern.sequence) :
                    i <= Len(concepts) /\ pattern.sequence[i] = concepts[i]})

\* The loop over CAUSATION_PATTERNS from pattern p on; best_score is the
\* fraction best[1] / best[2].
RECURSIVE BestPattern(_, _, _, _)
BestPattern(concepts, p, best_match, best) ==
    IF p > Len(CAUSATION_PATTERNS) THEN best_match
    ELSE LET pattern == CAUSATION_PATTERNS[p]
             matches == PatternMatches(pattern, concepts)
             len == Len(pattern.sequence)
         IN  IF matches * best[2] > best[1] * len /\ 2 * matches > len
             THEN BestPattern(concepts, p + 1, pattern.name, <<matches, len>>)
             ELSE BestPattern(concepts, p + 1, best_match, best)

\* _match_causation_pattern
MatchCausationPattern(chain) == BestPattern(ChainConcepts(chain.nodes), 1, "None", <<0, 1>>)

RECURSIVE TraceAll(_, _, _, _)
TraceAll(store, g, starts, max_depth) ==
    IF starts = <<>> THEN <<>>
    ELSE TraceCausationFromArticle(store, g, Head(starts), max_depth)
         \o TraceAll(store, g, Tail(starts), max_depth)

\* build_causation_chain(event_query, max_depth)
BuildCausationChain(store, g, event_query, max_depth) ==
    LET depth == IF max_depth = 0 THEN MAX_CHAIN_DEPTH ELSE max_depth
        starting_articles == FindRelevantArticles(store, event_query)
        chains == TraceAll(store, g, SubSeq(starting_articles, 1, Min(3, Len(starting_articles))), depth)
        ranked == RankChains(DeduplicateChains(chains))
        matched == [i \in 1..Len(ranked) |->
                       [ranked[i] EXCEPT !.pattern_match = MatchCausationPattern(ranked[i])]]
    IN  SubSeq(matched, 1, Min(10, Len(matched)))

\* A variant in which the list outlives the call and every call extends it.
ChainsKeptAcrossCalls(previous, found) == previous \o found

\* chains = [] (line 190): the list a call returns holds what that call
\* found, whatever an earlier call returned.
ChainsOfCall(previous, found) == found

\* ------------------------------------------------------------------------
\* Ripple effects (causation_analyzer.py, track_ripple_effects)
\* ------------------------------------------------------------------------

\* A variant of the level choice with the branches of hops 2 and 3 exchanged.
ImpactLevelOfHopExchanged(hop) ==
    IF hop = 1 THEN "PRIMARY"
    ELSE IF hop = 2 THEN "TERTIARY"
    ELSE IF hop = 3 THEN "SECONDARY"
    ELSE "QUATERNARY"

\* The impact level of a hop distance (lines 467-474).
ImpactLevelOfHop(hop) ==
    IF hop = 1 THEN "PRIMARY"
    ELSE IF hop = 2 THEN "SECONDARY"
    ELSE IF hop = 3 THEN "TERTIARY"
    ELSE "QUATERNARY"

\* A variant that never adds to the visited set.
VisitedUnchanged(visited, successor_id) == visited

\* visited.add(successor_id)
VisitedAdd(visited, successor_id) == visited \cup {successor_id}

\* ripple_effects as the function starts with it: an empty list per level.
EmptyRipple == [level \in DOMAIN IMPACT_LEVELS |-> <<>>]

\* The effect recorded for successor_id found from current_id at a hop; the
\* article is written by its id.
Effect(g, current_id, successor_id, hop) ==
    [article_id |-> successor_id,
     relationship |-> g.attr[<<current_id, successor_id>>],
     hop_distance |-> hop,
     impact_propagation |-> IMPACT_LEVELS[ImpactLevelOfHop(hop)].propagation_factor]

\* The loop over the successors of current_id (lines 463-490); st holds
\* visited, ripple_effects and next_level.
RECURSIVE RippleSuccessors(_, _, _, _, _)
RippleSuccessors(g, current_id, successors, hop, st) ==
    IF successors = <<>> THEN st
    ELSE LET successor_id == Head(successors)
         IN  IF successor_id \in st.visited
             THEN RippleSuccessors(g, current_id, Tail(successors), hop, st)
             ELSE RippleSuccessors(g, current_id, Tail(successors), hop,
                      [visited |-> VisitedAdd(st.visited, successor_id),
                       effects |-> [st.effects EXCEPT ![ImpactLevelOfHop(hop)] =
                                        Append(@, Effect(g, current_id, successor_id, hop))],
                       next_level |-> Append(st.next_level, successor_id)])

\* The loop over current_level (line 461).
RECURSIVE RippleLevel(_, _, _, _)
RippleLevel(g, current_level, hop, st) ==
    IF current_level = <<>> THEN st
    ELSE RippleLevel(g, Tail(current_level), hop,
                     RippleSuccessors(g, Head(current_level), g.adj[Head(current_level)],
                                      hop, st))

\* for hop in range(1, max_hops + 1), from hop on.
RECURSIVE RippleHops(_, _, _, _, _)
RippleHops(g, current_level, hop, max_hops, st) ==
    IF hop > max_hops THEN st
    ELSE LET done == RippleLevel(g, current_level, hop, [st EXCEPT !.next_level = <<>>])
         IN  RippleHops(g, done.next_level, hop + 1, max_hops, done)

\* The order in which a dict of the four levels is walked.
ImpactLevelOrder == <<"PRIMARY", "SECONDARY", "TERTIARY", "QUATERNARY">>

\* _analyze_cross_industry_impacts: per category, the effects on articles of
\* that category, level by level.
CrossIndustryImpacts(store, effects) ==
    LET Of(level) == [i \in 1..Len(effects[level]) |->
                         [article_id |-> effects[level][i].article_id,
                          impact_level |-> level,
                          relationship |-> effects[level][i].relationship]]
        all == Of(ImpactLevelOrder[1]) \o Of(ImpactLevelOrder[2])
               \o Of(ImpactLevelOrder[3]) \o Of(ImpactLevelOrder[4])
        categories == {ArticleOf(store, all[i].article_id).category : i \in 1..Len(all)}
    IN  [c \in categories |->
            LET InCategory(e) == ArticleOf(store, e.article_id).category = c
            IN  SelectSeq(all, InCategory)]

\* track_ripple_effects(article_id, max_hops): successors() of an id that is
\* no node of the graph raises NetworkXError.
TrackRippleEffects(store, g, article_id, max_hops) ==
    IF max_hops >= 1 /\ article_id \notin Range(g.nodes)
    THEN [outcome |-> "NetworkXError", effects |-> EmptyRipple,
          cross_industry_impacts |-> CrossIndustryImpacts(store, EmptyRipple)]
    ELSE LET done == RippleHops(g, <<article_id>>, 1, max_hops,
                                [visited |-> {article_id}, effects |-> EmptyRipple,
                                 next_level |-> <<>>])
         IN  [outcome |-> "returned", effects |-> done.effects,
              cross_industry_impacts |-> CrossIndustryImpacts(store, done.effects)]

\* ------------------------------------------------------------------------
\* Knowledge graph (knowledge_graph.py)
\* ------------------------------------------------------------------------

\* The names bound in the module knowledge_graph.py when its functions run:
\* its imports (lines 5-20) and its own definitions.
KnowledgeGraphNames ==
    {"json", "logging", "List", "Dict", "Any", "Tuple", "Optional", "Set",
     "dataclass", "field", "datetime", "nx", "plt", "Network", "np",
     "GRAPH_NODE_COLORS", "GRAPH_EDGE_COLORS", "RELATIONSHIP_TYPES", "IMPACT_LEVELS",
     "RelationshipDiscoveryEngine", "Relationship", "CausationAnalyzer",
     "CausationChain", "logger", "GraphNode", "GraphEdge", "Pattern", "KnowledgeGraph"}

\* Evaluating a global name: NameError when the module does not bind it.
NameLookup(name) == IF name \in KnowledgeGraphNames THEN "none" ELSE "NameError"

\* The MENTIONED_IN edges of _add_entity_nodes: one from every entity of every
\* article to the article's event.
RECURSIVE EntityMentions(_)
EntityMentions(store) ==
    IF store = <<>> THEN <<>>
    ELSE [i \in 1..Len(Head(store).entities) |-> <<Head(store).entities[i], Head(store).id>>]
         \o EntityMentions(Tail(store))

\* KnowledgeGraph._build_graph up to its first exception: add_event for every
\* article, then _add_entity_nodes, whose first statement is
\* entity_events = defaultdict(list).
BuildGraph(store) ==
    [events |-> [i \in 1..Len(store) |-> store[i].id],
     mentions |-> IF NameLookup("defaultdict") = "none" THEN EntityMentions(store) ELSE <<>>,
     error |-> NameLookup("defaultdict")]

\* KnowledgeGraph(engine, analyzer).get_graph_statistics(), as its callers
\* run it: the constructor builds the graph; get_graph_statistics starts with
\* a dictionary holding defaultdict(int).
GetGraphStatistics(store) ==
    LET built == BuildGraph(store)
    IN  IF built.error # "none"
        THEN [requested |-> TRUE, outcome |-> built.error, total_nodes |-> 0, total_edges |-> 0]
        ELSE IF NameLookup("defaultdict") # "none"
        THEN [requested |-> TRUE, outcome |-> NameLookup("defaultdict"),
              total_nodes |-> 0, total_edges |-> 0]
        ELSE [requested |-> TRUE, outcome |-> "returned",
              total_nodes |-> Len(built.events), total_edges |-> Len(built.mentions)]

\* ------------------------------------------------------------------------
\* News ingestion (news_ingestion.py).  The news file holds the list under
\* "articles"; an article is modelled by its id and its title.
\* ------------------------------------------------------------------------

\* Ingest calls per behaviour.
MaxIngests == 3

\* NewsArticle(id=..., title=..., ...).to_dict()
NewsArticle(id, title) == [id |-> id, title |-> title]

\* _load_existing_articles: the list in the file; an absent or unreadable
\* file gives the empty list.
LoadExistingArticles(file) == file

RECURSIVE MaxId(_)
MaxId(list) ==
    IF Len(list) = 1 THEN list[1].id
    ELSE LET rest == MaxId(Tail(list))
         IN  IF list[1].id > rest THEN list[1].id ELSE rest

\* _get_next_id on the list the instance holds.
GetNextId(list) == IF list = <<>> THEN 1 ELSE MaxId(list) + 1

\* ingest_article on the list the instance holds (lines 459-474): the
\* article made and the list with it appended.  The analysis of the text
\* falls back to the basic methods when the model fails (lines 388-397), so
\* an article is always made.
IngestArticle(list, title) ==
    LET article == NewsArticle(GetNextId(list), title)
    IN  [article |-> article, articles |-> Append(list, article)]

\* _save_articles: json.dump of the whole list over the file.
SaveArticles(list) == list

\* ------------------------------------------------------------------------
\* Vector index (faiss_index.py).  Vectors are tuples of integers; a
\* normalized vector is in hundredths.
\* ------------------------------------------------------------------------

\* FAISSIndexManager(dimension=...), scaled down.
IndexDimension == 2

\* Vectors the index holds at most.
MaxIndexRows == 3

\* np.linalg.norm of a row whose norm is a whole number.
Norm(v) ==
    LET squares == SumSeq([i \in 1..Len(v) |-> v[i] * v[i]])
    IN  CHOOSE n \in 0..squares : n * n = squares

\* embeddings / (norms + 1e-10), one row: the zero row stays zero.
Normalize(v) ==
    [i \in 1..Len(v) |-> IF Norm(v) = 0 THEN 0 ELSE (100 * v[i]) \div Norm(v)]

\* add_embeddings(embeddings, article_ids) (lines 40-64): the index and the
\* id map are extended, self.embeddings is assigned the rows of this call.
AddEmbeddings(ix, embeddings, article_ids) ==
    IF Len(embeddings[1]) # IndexDimension
    THEN [outcome |-> "ValueError", index |-> ix]
    ELSE LET normalized_embeddings == [i \in 1..Len(embeddings) |-> Normalize(embeddings[i])]
         IN  [outcome |-> "returned",
              index |-> [index |-> ix.index \o normalized_embeddings,
                         id_map |-> ix.id_map \o article_ids,
                         embeddings |-> normalized_embeddings,
                         has_embeddings |-> TRUE]]

\* get_embedding(article_id) (lines 151-157): id_map.index gives the first
\* place of the id, ValueError (no such id) gives None; a place beyond the
\* stored rows raises IndexError, which is not caught.  None is <<>>.
GetEmbedding(ix, article_id) ==
    IF article_id \notin Range(ix.id_map)
    THEN [outcome |-> "returned", value |-> <<>>]
    ELSE LET idx == CHOOSE i \in 1..Len(ix.id_map) :
                        /\ ix.id_map[i] = article_id
                        /\ \A j \in 1..(i - 1) : ix.id_map[j] # article_id
         IN  IF ~ix.has_embeddings THEN [outcome |-> "returned", value |-> <<>>]
             ELSE IF idx > Len(ix.embeddings) THEN [outcome |-> "IndexError", value |-> <<>>]
             ELSE [outcome |-> "returned", value |-> ix.embeddings[idx]]

\* ------------------------------------------------------------------------
\* State
\* ------------------------------------------------------------------------

VARIABLES
    articles,     \* the Article Store: the articles in file order
    classifier,   \* "unreliable": a call may answer or fail; "down": every call fails
    answered,     \* classifier calls answered so far
    cache,        \* the rows of the cache directory
    now,          \* the clock, in seconds
    calls,        \* the calls of discover_relationships so far
    analyzer,     \* the CausationAnalyzer under construction or built
    chains,       \* the last build_causation_chain call and its result
    stats,        \* the last get_graph_statistics call and its result
    probe,        \* the last call of track_ripple_effects, of
                  \* _trace_causation_from_article, of
                  \* _match_causation_pattern, of find_relationship_chains or
                  \* of the analyzer's constructor in a given order
    news_file,    \* the articles in the news file of the ingestion engines
    engines,      \* per NewsIngestionEngine instance: whether it was
                  \* constructed, and its self.articles["articles"]
    ingested,     \* the ingest_article calls so far
    faiss_index,  \* the FAISSIndexManager: index, id_map and embeddings
    fetched       \* the last get_embedding call on it and what came of it

\* The state of news ingestion and of the vector index.
ingestion_vars == <<news_file, engines, ingested>>

index_vars == <<faiss_index, fetched>>

vars == <<articles, classifier, answered, cache, now, calls, analyzer, chains, stats, probe,
          ingestion_vars, index_vars>>

\* NewsIngestionEngine instances on one news file.
EngineNames == {"first", "second"}

\* No ingestion engine constructed, the news file absent.
IngestionIdle ==
    /\ news_file = <<>>
    /\ engines = [e \in EngineNames |-> [constructed |-> FALSE, articles |-> <<>>]]
    /\ ingested = <<>>

\* FAISSIndexManager(dimension): an empty index, id_map = [], embeddings = None
\* (has_embeddings FALSE).
EmptyIndex == [index |-> <<>>, id_map |-> <<>>, embeddings |-> <<>>, has_embeddings |-> FALSE]

NotFetched == [called |-> FALSE, article_id |-> 0, outcome |-> "none", value |-> <<>>]

IndexIdle ==
    /\ faiss_index = EmptyIndex
    /\ fetched = NotFetched


Init ==
    /\ articles \in Corpora
    /\ classifier \in {"unreliable", "down"}
    /\ answered = 0
    /\ cache = EmptyCache
    /\ now = 0
    /\ calls = <<>>
    /\ analyzer = [state |-> "unbuilt", next |-> 1, graph |-> EmptyGraph, error |-> "none"]
    /\ chains = [called |-> FALSE, query |-> <<>>, max_depth |-> 0, result |-> <<>>]
    /\ stats = [requested |-> FALSE, outcome |-> "none", total_nodes |-> 0, total_edges |-> 0]
    /\ probe = [op |-> "none"]
    /\ IngestionIdle
    /\ IndexIdle

\* What the classifier may do on each of n calls in a row, when budget of
\* its calls may be answered over the behaviour.
ResponseChoices(n, budget) ==
    LET left == IF classifier = "down" \/ answered >= budget THEN 0 ELSE budget - answered
        each == IF left = 0 THEN ClassifierFailures
                ELSE ClassifierAnswers \cup ClassifierFailures
    IN  {r \in [1..n -> each] : Cardinality({i \in 1..n : r[i].kind = "json"}) <= left}

\* The answers among the classifier calls a discovery made.
AnswersUsed(batches, responses) ==
    Cardinality({n \in 1..Len(batches) : responses[n].kind = "json"})

\* The record of a call of discover_relationships made at time t that came
\* back with d.
CallRecord(article_id, max_relationships, t, d) ==
    [article_id |-> article_id, max_relationships |-> max_relationships, at |-> t,
     outcome |-> d.outcome, result |-> d.result, hit |-> d.hit, batches |-> d.batches,
     cached |-> CacheHolds(d.cache, CacheKey(article_id, MaxRels(max_relationships)),
                           d.result, t)]

\* What the classifier answers during one construction of the analyzer: for
\* each of the first k articles, its answer to each batch.
RECURSIVE GraphResponses(_, _)
GraphResponses(store, k) ==
    IF k = 0 THEN {<<>>}
    ELSE {Append(r, a) : r \in GraphResponses(store, k - 1),
                         a \in [1..MaxBatches(store) -> GraphAnswers(store, store[k].id)]}

\* _build_causation_graph with the turns of its loop (lines 143-167) taken
\* in a given order of the articles, from the n-th turn on: order[n] is the
\* position in the store of the article discovered in that turn, and
\* responses[k] is what the classifier answers for the k-th article of the
\* store whenever it is asked.
RECURSIVE BuildCausationGraphInOrder(_, _, _, _, _, _, _, _)
BuildCausationGraphInOrder(store, c, t, responses, order, n, g, log) ==
    IF n > Len(order)
    THEN [graph |-> g, error |-> "none", cache |-> c, calls |-> log]
    ELSE LET id == store[order[n]].id
             d == DiscoverRelationships(store, c, t, id, 0, responses[order[n]])
             added == AddRelationships(store, g, d.result)
             error == IF d.outcome # "returned" THEN d.outcome ELSE added.error
             record == CallRecord(id, 0, t, d)
         IN  IF error # "none"
             THEN [graph |-> EmptyGraph, error |-> error, cache |-> d.cache,
                   calls |-> Append(log, record)]
             ELSE BuildCausationGraphInOrder(store, d.cache, t, responses, order, n + 1,
                                             added.graph, Append(log, record))

\* self.articles.keys().index: the place of an article in the store.
PositionOf(store, id) == CHOOSE i \in 1..Len(store) : store[i].id = id

\* _build_relationship_graph (lines 356-365) from the k-th article on:
\* discover_relationships(article_id) for every article.  What it returns is
\* not used by find_relationship_chains; its calls and exceptions are.
RECURSIVE BuildRelationshipGraph(_, _, _, _, _, _)
BuildRelationshipGraph(store, c, t, responses, k, log) ==
    IF k > Len(store) THEN [outcome |-> "returned", cache |-> c, calls |-> log]
    ELSE LET d == DiscoverRelationships(store, c, t, store[k].id, 0, responses[k])
             record == CallRecord(store[k].id, 0, t, d)
         IN  IF d.outcome # "returned"
             THEN [outcome |-> d.outcome, cache |-> d.cache, calls |-> Append(log, record)]
             ELSE BuildRelationshipGraph(store, d.cache, t, responses, k + 1,
                                         Append(log, record))

\* The queue entries one expanded article adds: (target, path + [target])
\* for every relationship whose target is not on the path.
RECURSIVE Enqueued(_, _)
Enqueued(relationships, path) ==
    IF relationships = <<>> THEN <<>>
    ELSE (IF Head(relationships).target_id \notin Range(path)
          THEN <<[current_id |-> Head(relationships).target_id,
                  path |-> Append(path, Head(relationships).target_id)]>>
          ELSE <<>>)
         \o Enqueued(Tail(relationships), path)

\* The while loop of find_relationship_chains (lines 333-352).  The state
\* after an expanded article is bound as one value before the next turn.
RECURSIVE BfsPaths(_, _, _, _, _, _, _, _, _, _)
BfsPaths(store, c, t, responses, end_id, max_depth, queue, visited, paths, log) ==
    IF queue = <<>> \/ Len(paths) >= 5
    THEN [outcome |-> "returned", paths |-> paths, cache |-> c, calls |-> log]
    ELSE LET current_id == Head(queue).current_id
             path == Head(queue).path
         IN  IF Len(path) > max_depth
             THEN BfsPaths(store, c, t, responses, end_id, max_depth, Tail(queue),
                           visited, paths, log)
             ELSE IF current_id = end_id
             THEN BfsPaths(store, c, t, responses, end_id, max_depth, Tail(queue),
                           visited, Append(paths, path), log)
             ELSE IF current_id \in visited
             THEN BfsPaths(store, c, t, responses, end_id, max_depth, Tail(queue),
                           visited, paths, log)
             ELSE LET d == IF current_id \in ArticleIds(store)
                           THEN DiscoverRelationships(store, c, t, current_id, 10,
                                    responses[PositionOf(store, current_id)])
                           ELSE DiscoverRelationships(store, c, t, current_id, 10, <<>>)
                      record == CallRecord(current_id, 10, t, d)
                  IN  IF d.outcome # "returned"
                      THEN [outcome |-> d.outcome, paths |-> <<>>, cache |-> d.cache,
                            calls |-> Append(log, record)]
                      ELSE LET turn == [cache |-> d.cache,
                                        queue |-> Tail(queue) \o Enqueued(d.result, path),
                                        visited |-> visited \cup {current_id},
                                        paths |-> paths,
                                        log |-> Append(log, record)]
                           IN  CHOOSE found \in
                                   {BfsPaths(store, s.cache, t, responses, end_id, max_depth,
                                             s.queue, s.visited, s.paths, s.log) :
                                       s \in {turn}} : TRUE

\* find_relationship_chains(start_article_id, end_article_id, max_depth),
\* responses[k] being what the classifier answers for the k-th article.
FindRelationshipChains(store, c, t, responses, start_id, end_id, max_depth) ==
    CHOOSE found \in
        {IF built.outcome # "returned"
         THEN [outcome |-> built.outcome, paths |-> <<>>, cache |-> built.cache,
               calls |-> built.calls]
         ELSE BfsPaths(store, built.cache, t, responses, end_id, max_depth,
                       <<[current_id |-> start_id, path |-> <<start_id>>]>>, {}, <<>>,
                       built.calls) :
            built \in {BuildRelationshipGraph(store, c, t, responses, 1, <<>>)}} : TRUE

\* The same on RankingCorpus.
RECURSIVE RankingResponses(_, _)
RankingResponses(store, k) ==
    IF k = 0 THEN {<<>>}
    ELSE {Append(r, a) : r \in RankingResponses(store, k - 1),
                         a \in [1..MaxBatches(store) -> RankingAnswers(store[k].id)]}

\* _build_causation_graph from the k-th article on (lines 142-167), the nodes
\* being in g: the graph, the exception that ended the loop if one did, the
\* cache afterwards and the record of every discovery made.
RECURSIVE BuildCausationGraph(_, _, _, _, _, _, _)
BuildCausationGraph(store, c, t, responses, k, g, log) ==
    IF k > Len(store)
    THEN [graph |-> g, error |-> "none", cache |-> c, calls |-> log]
    ELSE LET id == store[k].id
             d == DiscoverRelationships(store, c, t, id, 0, responses[k])
             added == AddRelationships(store, g, d.result)
             error == IF d.outcome # "returned" THEN d.outcome ELSE added.error
             record == CallRecord(id, 0, t, d)
         IN  IF error # "none"
             THEN [graph |-> EmptyGraph, error |-> error, cache |-> d.cache,
                   calls |-> Append(log, record)]
             ELSE BuildCausationGraph(store, d.cache, t, responses, k + 1, added.graph,
                                      Append(log, record))

\* ------------------------------------------------------------------------
\* Actions
\* ------------------------------------------------------------------------

\* Time passes.
Tick ==
    /\ now + TickSeconds <= MaxClock
    /\ now' = now + TickSeconds
    /\ UNCHANGED <<articles, classifier, answered, cache, calls, analyzer, chains, stats, probe,
                 ingestion_vars, index_vars>>

\* ContextualSearchEngine._understand_query (search_engine.py, 74-109) on a
\* query it has not cached, with a model that answers: the understanding is
\* written to the cache.  The search engine is taken to open the directory
\* the discovery engine opens, and Config.CACHE_EXPIRY to be the configured
\* TTL.  When the model fails nothing is written.
UnderstandQuery ==
    /\ classifier = "unreliable"
    /\ ~CacheContains(cache, UnderstandingKey, now)
    /\ cache' = CacheSet(cache, UnderstandingKey, <<>>, now, CACHE_TTL_SECONDS)
    /\ UNCHANGED <<articles, classifier, answered, now, calls, analyzer, chains, stats, probe,
                 ingestion_vars, index_vars>>

\* A caller calls discover_relationships(article_id, max_relationships).
Discover(article_id, max_relationships) ==
    /\ Len(calls) < MaxCalls
    /\ \E responses \in ResponseChoices(MaxBatches(articles), MaxAnswers) :
          LET d == DiscoverRelationships(articles, cache, now, article_id,
                                         max_relationships, responses)
          IN  /\ cache' = d.cache
              /\ answered' = answered + AnswersUsed(d.batches, responses)
              /\ calls' = Append(calls, CallRecord(article_id, max_relationships, now, d))
    /\ UNCHANGED <<articles, classifier, now, analyzer, chains, stats, probe,
                 ingestion_vars, index_vars>>

\* CausationAnalyzer(engine) starts: every article becomes a node.
BeginBuild ==
    /\ analyzer.state = "unbuilt"
    /\ Len(articles) <= MaxGraphArticles
    /\ analyzer' = [state |-> "building", next |-> 1, graph |-> AddNodes(articles),
                    error |-> "none"]
    /\ UNCHANGED <<articles, classifier, answered, cache, now, calls, chains, stats, probe,
                 ingestion_vars, index_vars>>

\* One turn of the loop of _build_causation_graph: the relationships of the
\* next article are discovered and added as edges.  An exception leaves the
\* constructor, and no analyzer exists.
BuildStep ==
    /\ analyzer.state = "building"
    /\ \E responses \in ResponseChoices(MaxBatches(articles), MaxBuildAnswers) :
          LET id == articles[analyzer.next].id
              d == DiscoverRelationships(articles, cache, now, id, 0, responses)
              added == AddRelationships(articles, analyzer.graph, d.result)
              error == IF d.outcome # "returned" THEN d.outcome ELSE added.error
          IN  /\ cache' = d.cache
              /\ answered' = answered + AnswersUsed(d.batches, responses)
              /\ calls' = Append(calls, CallRecord(id, 0, now, d))
              /\ analyzer' =
                    IF error # "none"
                    THEN [state |-> "failed", next |-> analyzer.next,
                          graph |-> EmptyGraph, error |-> error]
                    ELSE [state |-> IF analyzer.next = Len(articles)
                                    THEN "ready" ELSE "building",
                          next |-> analyzer.next + 1, graph |-> added.graph,
                          error |-> "none"]
    /\ UNCHANGED <<articles, classifier, now, chains, stats, probe,
                 ingestion_vars, index_vars>>

\* A caller calls build_causation_chain(event_query, max_depth).
BuildChain(event_query, max_depth) ==
    /\ analyzer.state = "ready"
    /\ chains' = [called |-> TRUE, query |-> event_query, max_depth |-> max_depth,
                  result |-> ChainsOfCall(chains.result,
                                          BuildCausationChain(articles, analyzer.graph,
                                                              event_query, max_depth))]
    /\ UNCHANGED <<articles, classifier, answered, cache, now, calls, analyzer, stats, probe,
                 ingestion_vars, index_vars>>

\* A caller builds KnowledgeGraph(engine, analyzer) and asks for its
\* statistics.
GraphStatistics ==
    /\ analyzer.state = "ready"
    /\ stats' = GetGraphStatistics(articles)
    /\ UNCHANGED <<articles, classifier, answered, cache, now, calls, analyzer, chains, probe,
                 ingestion_vars, index_vars>>

\* CausationAnalyzer(engine), the whole constructor, with a classifier that
\* answers every batch: the nodes, then the edges of every article's
\* discovery.
Construct ==
    /\ analyzer.state = "unbuilt"
    /\ \E responses \in GraphResponses(articles, Len(articles)) :
          LET built == BuildCausationGraph(articles, cache, now, responses, 1,
                                           AddNodes(articles), <<>>)
          IN  /\ cache' = built.cache
              /\ answered' = answered + SumSeq([k \in 1..Len(built.calls) |->
                                                   Len(built.calls[k].batches)])
              /\ calls' = calls \o built.calls
              /\ analyzer' =
                    IF built.error # "none"
                    THEN [state |-> "failed", next |-> Len(built.calls),
                          graph |-> EmptyGraph, error |-> built.error]
                    ELSE [state |-> "ready", next |-> Len(articles) + 1,
                          graph |-> built.graph, error |-> "none"]
    /\ UNCHANGED <<articles, classifier, now, chains, stats, probe,
                 ingestion_vars, index_vars>>

\* CausationAnalyzer(engine), the whole constructor, on RankingCorpus.
ConstructRanking ==
    /\ analyzer.state = "unbuilt"
    /\ \E responses \in RankingResponses(articles, Len(articles)) :
          LET built == BuildCausationGraph(articles, cache, now, responses, 1,
                                           AddNodes(articles), <<>>)
          IN  /\ cache' = built.cache
              /\ answered' = answered + SumSeq([k \in 1..Len(built.calls) |->
                                                   Len(built.calls[k].batches)])
              /\ calls' = calls \o built.calls
              /\ analyzer' =
                    IF built.error # "none"
                    THEN [state |-> "failed", next |-> Len(built.calls),
                          graph |-> EmptyGraph, error |-> built.error]
                    ELSE [state |-> "ready", next |-> Len(articles) + 1,
                          graph |-> built.graph, error |-> "none"]
    /\ UNCHANGED <<articles, classifier, now, chains, stats, probe,
                 ingestion_vars, index_vars>>

\* CausationAnalyzer(engine), the whole constructor, with a classifier whose
\* answer depends on the source article alone and with the discoveries made
\* in the given order.
ConstructInOrder(order, responses) ==
    /\ analyzer.state = "unbuilt"
    /\ LET built == BuildCausationGraphInOrder(articles, cache, now, responses, order, 1,
                                               AddNodes(articles), <<>>)
       IN  /\ cache' = built.cache
           /\ answered' = answered + SumSeq([k \in 1..Len(built.calls) |->
                                                Len(built.calls[k].batches)])
           /\ calls' = calls \o built.calls
           /\ analyzer' =
                 IF built.error # "none"
                 THEN [state |-> "failed", next |-> Len(built.calls),
                       graph |-> EmptyGraph, error |-> built.error]
                 ELSE [state |-> "ready", next |-> Len(articles) + 1,
                       graph |-> built.graph, error |-> "none"]
           /\ probe' = [op |-> "construct", order |-> order, responses |-> responses,
                        cache |-> cache, at |-> now, earlier |-> Len(calls)]
    /\ UNCHANGED <<articles, classifier, now, chains, stats,
                 ingestion_vars, index_vars>>

\* A caller calls find_relationship_chains(start_id, end_id, max_depth).
FindChains(start_id, end_id, max_depth, responses) ==
    /\ \E found \in {FindRelationshipChains(articles, cache, now, responses,
                                             start_id, end_id, max_depth)} :
           /\ cache' = found.cache
           /\ answered' = answered + SumSeq([k \in 1..Len(found.calls) |->
                                                Len(found.calls[k].batches)])
           /\ calls' = calls \o found.calls
           /\ probe' = [op |-> "paths", start_id |-> start_id, end_id |-> end_id,
                        max_depth |-> max_depth, responses |-> responses,
                        cache |-> cache, at |-> now,
                        outcome |-> found.outcome, paths |-> found.paths]
    /\ UNCHANGED <<articles, classifier, now, analyzer, chains, stats,
                 ingestion_vars, index_vars>>

\* NewsIngestionEngine(news_file_path): the instance loads the file.
NewEngine(e) ==
    /\ ~engines[e].constructed
    /\ engines' = [engines EXCEPT ![e] = [constructed |-> TRUE,
                                          articles |-> LoadExistingArticles(news_file)]]
    /\ UNCHANGED <<articles, classifier, answered, cache, now, calls, analyzer, chains, stats,
                   probe, news_file, ingested, index_vars>>

\* A caller calls ingest_article(title, ...) on an instance: the article is
\* appended to the instance's list and the list is written over the file.
Ingest(e, title) ==
    /\ engines[e].constructed
    /\ Len(ingested) < MaxIngests
    /\ LET done == IngestArticle(engines[e].articles, title)
       IN  /\ engines' = [engines EXCEPT ![e].articles = done.articles]
           /\ news_file' = SaveArticles(done.articles)
           /\ ingested' = Append(ingested,
                                 [engine |-> e, article |-> done.article,
                                  before |-> {news_file[i].id : i \in 1..Len(news_file)}])
    /\ UNCHANGED <<articles, classifier, answered, cache, now, calls, analyzer, chains, stats,
                   probe, index_vars>>

\* A caller calls add_embeddings(embeddings, article_ids).
AddEmbeddingsCall(embeddings, article_ids) ==
    /\ Len(faiss_index.id_map) + Len(article_ids) <= MaxIndexRows
    /\ faiss_index' = AddEmbeddings(faiss_index, embeddings, article_ids).index
    /\ fetched' = NotFetched
    /\ UNCHANGED <<articles, classifier, answered, cache, now, calls, analyzer, chains, stats,
                   probe, ingestion_vars>>

\* clear(): index.reset(), id_map = [], embeddings = None.
Clear ==
    /\ faiss_index' = EmptyIndex
    /\ fetched' = NotFetched
    /\ UNCHANGED <<articles, classifier, answered, cache, now, calls, analyzer, chains, stats,
                   probe, ingestion_vars>>

\* A caller calls get_embedding(article_id).
GetEmbeddingCall(article_id) ==
    /\ fetched' = [called |-> TRUE, article_id |-> article_id,
                   outcome |-> GetEmbedding(faiss_index, article_id).outcome,
                   value |-> GetEmbedding(faiss_index, article_id).value]
    /\ UNCHANGED <<articles, classifier, answered, cache, now, calls, analyzer, chains, stats,
                   probe, ingestion_vars, faiss_index>>

\* A caller calls track_ripple_effects(article_id, max_hops).
TrackRipple(article_id, max_hops) ==
    /\ analyzer.state = "ready"
    /\ probe' = [op |-> "ripple", article_id |-> article_id, max_hops |-> max_hops,
                 result |-> TrackRippleEffects(articles, analyzer.graph,
                                               article_id, max_hops)]
    /\ UNCHANGED <<articles, classifier, answered, cache, now, calls, analyzer, chains, stats,
                 ingestion_vars, index_vars>>

\* _trace_causation_from_article(start_id, max_depth) on an article of the
\* graph.
Trace(start_id, max_depth) ==
    /\ analyzer.state = "ready"
    /\ start_id \in ArticleIds(articles)
    /\ probe' = [op |-> "trace", start_id |-> start_id, max_depth |-> max_depth,
                 result |-> TraceCausationFromArticle(articles, analyzer.graph,
                                                      start_id, max_depth)]
    /\ UNCHANGED <<articles, classifier, answered, cache, now, calls, analyzer, chains, stats,
                 ingestion_vars, index_vars>>

\* _match_causation_pattern(chain) on a chain whose nodes bear the titles.
MatchPattern(titles) ==
    /\ probe' = [op |-> "pattern", titles |-> titles,
                 result |-> MatchCausationPattern(
                                [nodes |-> [i \in 1..Len(titles) |-> [title |-> titles[i]]]])]
    /\ UNCHANGED <<articles, classifier, answered, cache, now, calls, analyzer, chains, stats,
                 ingestion_vars, index_vars>>

\* The ids and limits callers pass.
CallIds == {1, 2, MissingId}

CallLimits == {0, 1}

Queries == {<<"Ford", "stock", "drop">>, <<"report">>, <<"bitcoin">>}

Depths == {0, 1}

\* The discovery engine and its callers.
Next ==
    \/ Tick
    \/ UnderstandQuery
    \/ \E id \in CallIds, k \in CallLimits : Discover(id, k)

Spec == Init /\ [][Next]_vars

\* The causation analyzer, the knowledge graph and their callers.
NextAnalyzer ==
    \/ BeginBuild
    \/ BuildStep
    \/ \E q \in Queries, d \in Depths : BuildChain(q, d)
    \/ GraphStatistics

SpecAnalyzer == Init /\ [][NextAnalyzer]_vars

\* The sources and hop limits of track_ripple_effects, the starts and depths
\* of traces.
RippleSources == {1, 3, MissingId}

RippleHopLimits == {1, 3, 4}

TraceStarts == {1, 2}

TraceDepths == {1, 2, 4}

\* No question was put to the analyzer yet.  Its operations read the graph
\* and change nothing, so what one returns does not depend on the questions
\* before it.
Unasked == ~chains.called /\ probe.op = "none"

\* A corpus of three or of five articles and a classifier that answers.
InitGraph ==
    /\ articles \in GraphCorpora
    /\ classifier = "unreliable"
    /\ answered = 0
    /\ cache = EmptyCache
    /\ now = 0
    /\ calls = <<>>
    /\ analyzer = [state |-> "unbuilt", next |-> 1, graph |-> EmptyGraph, error |-> "none"]
    /\ chains = [called |-> FALSE, query |-> <<>>, max_depth |-> 0, result |-> <<>>]
    /\ stats = [requested |-> FALSE, outcome |-> "none", total_nodes |-> 0, total_edges |-> 0]
    /\ probe = [op |-> "none"]
    /\ IngestionIdle
    /\ IndexIdle

\* The analyzer built in one step on graphs of every shape the entries
\* allow, and one question put to it.
NextGraph ==
    \/ Construct
    \/ Unasked /\ \E q \in Queries, d \in Depths : BuildChain(q, d)
    \/ Unasked /\ \E id \in RippleSources, h \in RippleHopLimits : TrackRipple(id, h)
    \/ Unasked /\ \E id \in TraceStarts, d \in TraceDepths : Trace(id, d)

SpecGraph == InitGraph /\ [][NextGraph]_vars

\* The titles of chain nodes: keywords of the first pattern alone and in
\* pairs, keywords of another pattern, and a title with no keyword.
PatternTitles ==
    {<<"Tariff">>, <<"retaliation">>, <<"opportunity">>, <<"realignment">>,
     <<"Tariff", "retaliation">>, <<"Crisis", "spread">>, <<"Ford", "stock", "drop">>}

\* Chains of two or three nodes.
MaxPatternNodes == 3

\* The pattern matcher applied to chains of every choice of titles.
NextPattern ==
    /\ Unasked
    /\ \E titles \in SeqsUpTo(PatternTitles, MaxPatternNodes) :
          Len(titles) >= 2 /\ MatchPattern(titles)

SpecPattern == Init /\ [][NextPattern]_vars

\* The queries put to the analyzer of RankingCorpus: a word of a title and
\* of entities, a whole title, a word of every content.
RankingQueries == {<<"Ford">>, <<"Ford", "stock", "drop">>, <<"report">>}

RankingDepths == {0, 1, 2}

InitRanking ==
    /\ articles = RankingCorpus
    /\ classifier = "unreliable"
    /\ answered = 0
    /\ cache = EmptyCache
    /\ now = 0
    /\ calls = <<>>
    /\ analyzer = [state |-> "unbuilt", next |-> 1, graph |-> EmptyGraph, error |-> "none"]
    /\ chains = [called |-> FALSE, query |-> <<>>, max_depth |-> 0, result |-> <<>>]
    /\ stats = [requested |-> FALSE, outcome |-> "none", total_nodes |-> 0, total_edges |-> 0]
    /\ probe = [op |-> "none"]
    /\ IngestionIdle
    /\ IndexIdle

\* The analyzer built on RankingCorpus and one build_causation_chain call.
NextRanking ==
    \/ ConstructRanking
    \/ Unasked /\ \E q \in RankingQueries, d \in RankingDepths : BuildChain(q, d)

SpecRanking == InitRanking /\ [][NextRanking]_vars

\* What the classifier answers for one source article while the graph is
\* built: nothing, or edges to articles 2 and 3.
OrderAnswers ==
    {[kind |-> "json", relationships |-> <<>>],
     [kind |-> "json",
      relationships |-> <<Edge(2, "CAUSES", 90), Edge(3, "IMPACTS_FINANCE", 60)>>]}

\* The orders in which the articles of a store can be taken.
DiscoveryOrders(store) ==
    {o \in [1..Len(store) -> 1..Len(store)] : \A i, j \in 1..Len(store) : o[i] = o[j] => i = j}

InitOrder ==
    /\ articles = SmallCorpus
    /\ classifier = "unreliable"
    /\ answered = 0
    /\ cache = EmptyCache
    /\ now = 0
    /\ calls = <<>>
    /\ analyzer = [state |-> "unbuilt", next |-> 1, graph |-> EmptyGraph, error |-> "none"]
    /\ chains = [called |-> FALSE, query |-> <<>>, max_depth |-> 0, result |-> <<>>]
    /\ stats = [requested |-> FALSE, outcome |-> "none", total_nodes |-> 0, total_edges |-> 0]
    /\ probe = [op |-> "none"]
    /\ IngestionIdle
    /\ IndexIdle

\* A cache left by earlier use of the engine (a query understood, article 1
\* discovered, time passed), then the analyzer built with the discoveries
\* in some order.
NextOrder ==
    \/ analyzer.state = "unbuilt" /\ Tick
    \/ analyzer.state = "unbuilt" /\ UnderstandQuery
    \/ analyzer.state = "unbuilt" /\ calls = <<>> /\ CacheEnabled(cache) /\ Discover(1, 0)
    \/ \E order \in DiscoveryOrders(articles),
          responses \in [1..Len(articles) -> [1..MaxBatches(articles) -> OrderAnswers]] :
          ConstructInOrder(order, responses)

SpecOrder == InitOrder /\ [][NextOrder]_vars

\* What the classifier answers for a source article while paths are sought:
\* edges of GraphEntries, or an edge to an id that is no article.
PathAnswers(store, source_id) ==
    GraphAnswers(store, source_id)
    \cup {[kind |-> "json", relationships |-> <<Edge(MissingId, "CAUSES", 90)>>]}

\* What the classifier answers for the first k articles of store while paths
\* are sought: one answer for each batch of each article.
RECURSIVE PathResponses(_, _)
PathResponses(store, k) ==
    IF k = 0 THEN {<<>>}
    ELSE {Append(r, a) : r \in PathResponses(store, k - 1),
                         a \in [1..MaxBatches(store) -> PathAnswers(store, store[k].id)]}

\* The depths callers pass to find_relationship_chains.
PathDepths == {1, 2, 3}

\* The engine with a cache unused or in use, and one find_relationship_chains
\* call between articles of the store.
NextPaths ==
    \/ Unasked /\ UnderstandQuery
    \/ /\ Unasked
       /\ \E start_id \in ArticleIds(articles), end_id \in ArticleIds(articles),
             max_depth \in PathDepths,
             responses \in PathResponses(articles, Len(articles)) :
             FindChains(start_id, end_id, max_depth, responses)

SpecPaths == InitOrder /\ [][NextPaths]_vars

\* News files with pairwise distinct ids: none, ids in order, ids out of
\* order.
InitialFiles ==
    {<<>>,
     <<NewsArticle(1, "Ford"), NewsArticle(2, "Peso")>>,
     <<NewsArticle(5, "Ford"), NewsArticle(2, "Peso")>>}

IngestTitles == {"Tariff", "Chip"}

InitIngest ==
    /\ articles = SmallCorpus
    /\ classifier = "unreliable"
    /\ answered = 0
    /\ cache = EmptyCache
    /\ now = 0
    /\ calls = <<>>
    /\ analyzer = [state |-> "unbuilt", next |-> 1, graph |-> EmptyGraph, error |-> "none"]
    /\ chains = [called |-> FALSE, query |-> <<>>, max_depth |-> 0, result |-> <<>>]
    /\ stats = [requested |-> FALSE, outcome |-> "none", total_nodes |-> 0, total_edges |-> 0]
    /\ probe = [op |-> "none"]
    /\ news_file \in InitialFiles
    /\ engines = [e \in EngineNames |-> [constructed |-> FALSE, articles |-> <<>>]]
    /\ ingested = <<>>
    /\ IndexIdle

\* Two ingestion engines on one news file, constructed and used in any
\* interleaving.
NextIngest ==
    \/ \E e \in EngineNames : NewEngine(e)
    \/ \E e \in EngineNames, title \in IngestTitles : Ingest(e, title)

SpecIngest == InitIngest /\ [][NextIngest]_vars

\* The rows callers add: of the index's dimension, the zero row among them,
\* and one of another dimension.
IndexVectors == {<<3, 4>>, <<0, 5>>, <<0, 0>>}

IndexBatches ==
    (SeqsUpTo(IndexVectors, 2) \ {<<>>}) \cup {<< <<3, 4, 0>> >>}

\* The ids callers pass with a batch of n rows: n different ids the index
\* does not hold.
IndexIds(n) ==
    {ids \in [1..n -> 1..MaxIndexRows] :
        /\ \A i, j \in 1..n : ids[i] = ids[j] => i = j
        /\ \A i \in 1..n : ids[i] \notin Range(faiss_index.id_map)}

\* A FAISSIndexManager and its callers.
NextIndex ==
    \/ \E embeddings \in IndexBatches : \E article_ids \in IndexIds(Len(embeddings)) :
          AddEmbeddingsCall(embeddings, article_ids)
    \/ Clear
    \/ \E id \in 1..MaxIndexRows : GetEmbeddingCall(id)

SpecIndex == Init /\ [][NextIndex]_vars

\* ------------------------------------------------------------------------
\* Properties
\* ------------------------------------------------------------------------

\* The calls of discover_relationships made on an article of the store.
CallsOnArticles == {i \in 1..Len(calls) : calls[i].article_id \in ArticleIds(articles)}

\* Every relationship a call returned.
Returned == UNION {Range(calls[i].result) : i \in 1..Len(calls)}

\* The edges of the causation graph a built analyzer holds.
GraphEdges == IF analyzer.state = "ready" THEN DOMAIN analyzer.graph.attr ELSE {}

\* C1: every relationship discover_relationships returned, from the classifier
\* or from the cache, and every edge of the built causation graph has a
\* confidence of at least RELATIONSHIP_CONFIDENCE_THRESHOLD.
C1_ConfidenceFloor ==
    /\ \A r \in Returned : r.confidence >= RELATIONSHIP_CONFIDENCE_THRESHOLD
    /\ \A e \in GraphEdges :
          analyzer.graph.attr[e].confidence >= RELATIONSHIP_CONFIDENCE_THRESHOLD

\* C1, reached: the graph is built, an edge of it has exactly the threshold
\* confidence, and the call that gave it received two entries from the
\* classifier, parsed them all and kept only one.
C1_Witness ==
    /\ analyzer.state = "ready"
    /\ \E e \in GraphEdges :
          analyzer.graph.attr[e].confidence = RELATIONSHIP_CONFIDENCE_THRESHOLD
    /\ \E i \in 1..Len(calls) : \E n \in 1..Len(calls[i].batches) :
          LET b == calls[i].batches[n]
          IN  /\ b.received = 2
              /\ ~b.failed
              /\ Len(b.contributed) = 1
              /\ b.contributed[1].confidence = RELATIONSHIP_CONFIDENCE_THRESHOLD

\* C2: of two consecutive calls discover_relationships(id, k) on an article of
\* the store, the second within the TTL of the first, both return, they return
\* the same list, and at most one of them calls the classifier.
C2_CacheIdempotence ==
    \A i \in 1..(Len(calls) - 1) :
        LET first == calls[i]
            second == calls[i + 1]
        IN  (/\ first.article_id \in ArticleIds(articles)
             /\ second.article_id = first.article_id
             /\ second.max_relationships = first.max_relationships
             /\ second.at - first.at < CACHE_TTL_SECONDS)
            => /\ first.outcome = "returned"
               /\ second.outcome = "returned"
               /\ second.result = first.result
               /\ first.batches = <<>> \/ second.batches = <<>>

\* C3: no relationship returned and no edge of the built graph joins an
\* article to itself.
C3_NoSelfLoops ==
    /\ \A r \in Returned : r.source_id # r.target_id
    /\ \A e \in GraphEdges : e[1] # e[2]

\* C4: a call of discover_relationships on an article of the store returns;
\* it raises nothing.
C4_RaisesOnlyForMissingId ==
    \A i \in CallsOnArticles : calls[i].outcome = "returned"

\* C5: a batch on which the classifier call or its parse failed adds no
\* relationship, and a call that misses the cache classifies every batch of
\* its candidates unless it stops early with max_relationships gathered.
C5_FailedBatchAddsNothing ==
    \A i \in CallsOnArticles :
        LET call == calls[i]
            source == ArticleOf(articles, call.article_id)
            gathered == SumSeq([n \in 1..Len(call.batches) |->
                                   Len(call.batches[n].contributed)])
        IN  /\ \A n \in 1..Len(call.batches) :
                  call.batches[n].failed => call.batches[n].contributed = <<>>
            /\ (~call.hit /\ call.outcome = "returned")
                  => \/ Len(call.batches) = BatchCount(FindCandidateArticles(articles, source))
                     \/ gathered >= MaxRels(call.max_relationships)

\* C6: when every classifier call fails, every call of discover_relationships
\* on an article of the store returns the empty list.
C6_AllFailuresGiveEmpty ==
    classifier = "down"
        => \A i \in CallsOnArticles :
              calls[i].outcome = "returned" /\ calls[i].result = <<>>

\* C6, reached: the classifier is down and a call on an article with two
\* batches of candidates classified both, both failed, and it returned the
\* empty list.
C6_Witness ==
    /\ classifier = "down"
    /\ \E i \in CallsOnArticles :
          /\ Len(calls[i].batches) = 2
          /\ \A n \in 1..2 : calls[i].batches[n].failed
          /\ calls[i].outcome = "returned"
          /\ calls[i].result = <<>>

\* C7: when every classifier call fails, get_graph_statistics on the knowledge
\* graph of the corpus returns statistics that report no edge.
C7_StatisticsWithoutEdges ==
    (classifier = "down" /\ stats.requested)
        => stats.outcome = "returned" /\ stats.total_edges = 0

\* C8: every relationship returned and every edge of the built graph has a
\* confidence in [0, 1] and a type of RELATIONSHIP_TYPES.
C8_ValidatedEdges ==
    /\ \A r \in Returned :
          /\ r.confidence \in 0..100
          /\ r.relationship_type \in RELATIONSHIP_TYPES
    /\ \A e \in GraphEdges :
          /\ analyzer.graph.attr[e].confidence \in 0..100
          /\ analyzer.graph.attr[e].relationship_type \in RELATIONSHIP_TYPES

\* C9: a call that missed the cache and returned has left its result in the
\* cache, under its key, to expire a TTL after the call.
C9_MissWritesCache ==
    \A i \in 1..Len(calls) :
        (~calls[i].hit /\ calls[i].outcome = "returned") => calls[i].cached

\* C10: every chain build_causation_chain returned has one node more than it
\* has links, at least two nodes, and its i-th link joins its i-th node to
\* the next.
C10_ChainValidity ==
    \A c \in 1..Len(chains.result) :
        LET chain == chains.result[c]
        IN  /\ Len(chain.nodes) = Len(chain.links) + 1
            /\ Len(chain.nodes) >= 2
            /\ \A i \in 1..Len(chain.links) :
                  /\ i + 1 <= Len(chain.nodes)
                  /\ chain.links[i].source_id = chain.nodes[i].article_id
                  /\ chain.links[i].target_id = chain.nodes[i + 1].article_id

\* C10, reached: build_causation_chain returned a chain of three nodes.
C10_Witness ==
    /\ chains.called
    /\ \E c \in 1..Len(chains.result) : Len(chains.result[c].nodes) = 3

\* The article ids of the nodes of a chain, in order.
NodeIds(chain) == [k \in 1..Len(chain.nodes) |-> chain.nodes[k].article_id]

\* C11: no list build_causation_chain returned holds two chains with the same
\* sequence of node ids, whichever articles the traces started from and
\* however often the call was made.
C11_NoDuplicateChains ==
    \A i, j \in 1..Len(chains.result) :
        NodeIds(chains.result[i]) = NodeIds(chains.result[j]) => i = j

\* C11, reached: a call returned chains traced from two different starting
\* articles, among them a chain and its extension by one hop.
C11_Witness ==
    /\ chains.called
    /\ \E i, j \in 1..Len(chains.result) :
          NodeIds(chains.result[i])[1] # NodeIds(chains.result[j])[1]
    /\ \E i, j \in 1..Len(chains.result) :
          /\ Len(chains.result[j].nodes) = Len(chains.result[i].nodes) + 1
          /\ SubSeq(NodeIds(chains.result[j]), 1, Len(chains.result[i].nodes))
                = NodeIds(chains.result[i])

\* The articles within k hops of s along the edges of g, s among them.
RECURSIVE Within(_, _, _)
Within(g, s, k) ==
    IF k = 0 THEN {s}
    ELSE LET near == Within(g, s, k - 1)
         IN  near \cup {v \in Range(g.nodes) : \E u \in near : <<u, v>> \in DOMAIN g.attr}

\* The least number of hops from s to v, for v reachable from s.
Distance(g, s, v) ==
    CHOOSE k \in 0..Len(g.nodes) :
        /\ v \in Within(g, s, k)
        /\ k = 0 \/ v \notin Within(g, s, k - 1)

\* The place of a level in PRIMARY < SECONDARY < TERTIARY < QUATERNARY.
LevelRank(level) == CHOOSE r \in 1..Len(ImpactLevelOrder) : ImpactLevelOrder[r] = level

\* A call of track_ripple_effects returned.
RippleReturned == probe.op = "ripple" /\ probe.result.outcome = "returned"

\* The effects the last call of track_ripple_effects recorded, each with the
\* level of the list that holds it.
Recorded ==
    IF RippleReturned
    THEN UNION {{[article_id |-> probe.result.effects[level][i].article_id,
                  level |-> level,
                  hop_distance |-> probe.result.effects[level][i].hop_distance,
                  impact_propagation |-> probe.result.effects[level][i].impact_propagation] :
                    i \in 1..Len(probe.result.effects[level])} :
                level \in DOMAIN probe.result.effects}
    ELSE {}

\* The effects of the last call, the four lists in a row.
RecordedInOrder ==
    probe.result.effects[ImpactLevelOrder[1]] \o probe.result.effects[ImpactLevelOrder[2]]
    \o probe.result.effects[ImpactLevelOrder[3]] \o probe.result.effects[ImpactLevelOrder[4]]

\* C12: in the result of track_ripple_effects the level of an article never
\* falls as its least hop distance from the source grows (PRIMARY <
\* SECONDARY < TERTIARY < QUATERNARY), on cyclic graphs too, and the
\* propagation factor falls strictly from level to level.
C12_LevelsFollowDistance ==
    /\ \A a, b \in Recorded :
          /\ Distance(analyzer.graph, probe.article_id, a.article_id)
                <= Distance(analyzer.graph, probe.article_id, b.article_id)
             => LevelRank(a.level) <= LevelRank(b.level)
          /\ LevelRank(a.level) < LevelRank(b.level)
             => a.impact_propagation > b.impact_propagation
    /\ \A r \in 1..(Len(ImpactLevelOrder) - 1) :
          IMPACT_LEVELS[ImpactLevelOrder[r]].propagation_factor
             > IMPACT_LEVELS[ImpactLevelOrder[r + 1]].propagation_factor

\* C12, reached: track_ripple_effects with max_hops = 4 on a graph with a
\* cycle through the source (5 -> 1) and a second, longer way to an article
\* (4 -> 2) filled all four levels.
C12_Witness ==
    /\ RippleReturned
    /\ probe.max_hops = 4
    /\ {<<5, 1>>, <<4, 2>>} \subseteq DOMAIN analyzer.graph.attr
    /\ \A level \in DOMAIN probe.result.effects : probe.result.effects[level] # <<>>

\* C13: track_ripple_effects records every article within max_hops of the
\* source exactly once over its four lists, in the list of its least hop
\* distance (QUATERNARY from four hops on) and with that distance; it records
\* nothing else, and never the source.
C13_RecordedOnce ==
    RippleReturned =>
        LET g == analyzer.graph
            s == probe.article_id
            all == RecordedInOrder
        IN  /\ {all[i].article_id : i \in 1..Len(all)} = Within(g, s, probe.max_hops) \ {s}
            /\ \A i, j \in 1..Len(all) : all[i].article_id = all[j].article_id => i = j
            /\ \A e \in Recorded :
                  /\ e.hop_distance = Distance(g, s, e.article_id)
                  /\ e.level = ImpactLevelOrder[Min(e.hop_distance, Len(ImpactLevelOrder))]

\* C13, reached: on a graph where article 3 has two ways from the source
\* (1 -> 3 and 1 -> 2 -> 3) and a way back to it (3 -> 1), a call with
\* max_hops = 3 recorded articles 2 and 3 at the first level and article 4 at
\* the second.
C13_Witness ==
    /\ RippleReturned
    /\ probe.article_id = 1
    /\ probe.max_hops = 3
    /\ {<<1, 2>>, <<1, 3>>, <<2, 3>>, <<3, 1>>, <<3, 4>>} \subseteq DOMAIN analyzer.graph.attr
    /\ Len(probe.result.effects["PRIMARY"]) = 2
    /\ Len(probe.result.effects["SECONDARY"]) = 1

\* The keywords of a pattern that occur in some title.
KeywordsMatched(pattern, titles) ==
    Cardinality({c \in 1..Len(pattern.sequence) :
                    \E i \in 1..Len(titles) : Occurs(<<pattern.sequence[c]>>, titles[i])})

\* C14: for every pattern, a chain whose titles hold exactly 2 of its 4
\* keywords does not get that pattern's label, and a chain whose titles hold
\* exactly 3 of its 4 keywords gets a label, whichever the keywords and the
\* nodes that hold them.
C14_ThreeOfFourKeywords ==
    probe.op = "pattern" =>
        \A p \in 1..Len(CAUSATION_PATTERNS) :
            /\ KeywordsMatched(CAUSATION_PATTERNS[p], probe.titles) = 2
               => probe.result # CAUSATION_PATTERNS[p].name
            /\ KeywordsMatched(CAUSATION_PATTERNS[p], probe.titles) = 3
               => probe.result # "None"

\* C15: on a corpus of three articles A, B, C whose graph has the edges
\* A -> B of confidence 0.9 and B -> C of confidence 0.8 and no other,
\* build_causation_chain with the title of A and the default depth returns a
\* chain with the nodes A, B, C whose confidence is 0.85, the mean of its
\* links.
C15_ThreeArticleChain ==
    (/\ Len(articles) = 3
     /\ analyzer.state = "ready"
     /\ DOMAIN analyzer.graph.attr = {<<articles[1].id, articles[2].id>>,
                                      <<articles[2].id, articles[3].id>>}
     /\ analyzer.graph.attr[<<articles[1].id, articles[2].id>>].confidence = 90
     /\ analyzer.graph.attr[<<articles[2].id, articles[3].id>>].confidence = 80
     /\ chains.called
     /\ chains.query = articles[1].title
     /\ chains.max_depth = 0)
    => \E c \in 1..Len(chains.result) :
          /\ NodeIds(chains.result[c]) = <<articles[1].id, articles[2].id, articles[3].id>>
          /\ chains.result[c].confidence[1] = 85 * chains.result[c].confidence[2]

\* C15, reached: the three articles, the two edges, and the call made with
\* the title of the first, which returned two chains.
C15_Witness ==
    /\ Len(articles) = 3
    /\ analyzer.state = "ready"
    /\ DOMAIN analyzer.graph.attr = {<<articles[1].id, articles[2].id>>,
                                     <<articles[2].id, articles[3].id>>}
    /\ analyzer.graph.attr[<<articles[1].id, articles[2].id>>].confidence = 90
    /\ analyzer.graph.attr[<<articles[2].id, articles[3].id>>].confidence = 80
    /\ chains.called
    /\ chains.query = articles[1].title
    /\ chains.max_depth = 0
    /\ Len(chains.result) = 2

\* The hours between the timestamps of two articles of the store.
HoursApart(store, a, b) == Abs(ArticleOf(store, a).timestamp - ArticleOf(store, b).timestamp)

\* The candidates a call classified, in the order it classified them.
RECURSIVE Classified(_, _)
Classified(batches, n) ==
    IF n = 0 THEN <<>> ELSE Classified(batches, n - 1) \o batches[n].candidates

\* The relationships the first n batches of a call added.
RECURSIVE Gathered(_, _)
Gathered(batches, n) ==
    IF n = 0 THEN 0 ELSE Gathered(batches, n - 1) + Len(batches[n].contributed)

\* The calls that missed the cache and went to the candidates.
Misses == {i \in CallsOnArticles : ~calls[i].hit /\ calls[i].outcome = "returned"}

\* C16: every candidate a call sent to the classifier lies within
\* TEMPORAL_WINDOW_DAYS days of the source article, the difference taken on
\* the full timestamps: no candidate is more than 30 * 24 hours earlier or
\* later than the source.
C16_WindowOnFullTimestamps ==
    \A i \in Misses :
        LET sent == Classified(calls[i].batches, Len(calls[i].batches))
        IN  \A k \in 1..Len(sent) :
                HoursApart(articles, sent[k], calls[i].article_id) <= TEMPORAL_WINDOW_DAYS * 24

\* C17: a call that misses the cache classifies its ranked candidates in
\* consecutive batches of at most BATCH_SIZE_FOR_GPT: the n-th batch is the
\* n-th slice of the ranking, no batch follows one after which the
\* relationships gathered reached max_relationships, there are at most
\* ceil(candidates / BATCH_SIZE_FOR_GPT) batches, and no candidate is sent
\* twice.
C17_ConsecutiveBatches ==
    \A i \in Misses :
        LET call == calls[i]
            ranked == FindCandidateArticles(articles, ArticleOf(articles, call.article_id))
            sent == Classified(call.batches, Len(call.batches))
            limit == IF call.max_relationships = 0 THEN MAX_RELATIONSHIPS_PER_ARTICLE
                     ELSE call.max_relationships
        IN  /\ Len(call.batches) * BATCH_SIZE_FOR_GPT < Len(ranked) + BATCH_SIZE_FOR_GPT
            /\ \A n \in 1..Len(call.batches) :
                  /\ Len(call.batches[n].candidates) <= BATCH_SIZE_FOR_GPT
                  /\ n < Len(call.batches) =>
                        /\ Len(call.batches[n].candidates) = BATCH_SIZE_FOR_GPT
                        /\ Gathered(call.batches, n) < limit
            /\ Len(sent) <= Len(ranked)
            /\ \A k \in 1..Len(sent) : sent[k] = ranked[k].id
            /\ \A j, k \in 1..Len(sent) : sent[j] = sent[k] => j = k

\* C17, reached: a call with max_relationships = 1 on an article with six
\* ranked candidates classified the first five, gathered a relationship and
\* sent no second batch; and a call without a limit sent two batches, of
\* five candidates and of one.
C17_Witness ==
    /\ \E i \in Misses :
          /\ calls[i].max_relationships = 1
          /\ Len(FindCandidateArticles(articles, ArticleOf(articles, calls[i].article_id))) = 6
          /\ Len(calls[i].batches) = 1
          /\ Len(calls[i].batches[1].candidates) = 5
          /\ Len(calls[i].batches[1].contributed) >= 1
    /\ \E i \in Misses :
          /\ calls[i].max_relationships = 0
          /\ Len(calls[i].batches) = 2
          /\ Len(calls[i].batches[1].candidates) = 5
          /\ Len(calls[i].batches[2].candidates) = 1

\* C18: the list a call returns is sorted by confidence, highest first, and
\* has at most max_relationships entries (MAX_RELATIONSHIPS_PER_ARTICLE when
\* the limit is omitted).
C18_SortedAndCapped ==
    \A i \in 1..Len(calls) :
        LET call == calls[i]
            limit == IF call.max_relationships = 0 THEN MAX_RELATIONSHIPS_PER_ARTICLE
                     ELSE call.max_relationships
        IN  call.outcome = "returned" =>
                /\ Len(call.result) <= limit
                /\ \A k \in 1..(Len(call.result) - 1) :
                      call.result[k].confidence >= call.result[k + 1].confidence

\* C18, reached: with max_relationships = 1 a batch added two relationships,
\* the weaker first, and the call returned the stronger alone.
C18_Witness ==
    \E i \in Misses :
        /\ calls[i].max_relationships = 1
        /\ Len(calls[i].batches[1].contributed) = 2
        /\ calls[i].batches[1].contributed[1].confidence
              < calls[i].batches[1].contributed[2].confidence
        /\ calls[i].result = <<calls[i].batches[1].contributed[2]>>

\* C19: when the discovery made for an article while the graph was built
\* returned relationships to a target, the hop from the article to the
\* target has the type and the confidence of the first of them, which is the
\* one of highest confidence.
C19_StrongestEdgePerHop ==
    analyzer.state = "ready" =>
        \A i \in 1..Len(calls) : \A k \in 1..Len(calls[i].result) :
            LET r == calls[i].result[k]
                first == CHOOSE n \in 1..Len(calls[i].result) :
                            /\ calls[i].result[n].target_id = r.target_id
                            /\ \A m \in 1..(n - 1) :
                                  calls[i].result[m].target_id # r.target_id
                link == CausationLink(analyzer.graph, r.source_id, r.target_id)
            IN  /\ link.confidence >= r.confidence
                /\ link.confidence = calls[i].result[first].confidence
                /\ link.relationship_type = calls[i].result[first].relationship_type

\* The simple paths of g that extend path by 1 to d edges.
RECURSIVE SimplePaths(_, _, _)
SimplePaths(g, path, d) ==
    IF d = 0 THEN {}
    ELSE LET longer == {Append(path, v) :
                           v \in {w \in Range(g.nodes) :
                                     /\ <<path[Len(path)], w>> \in DOMAIN g.attr
                                     /\ w \notin Range(path)}}
         IN  longer \cup UNION {SimplePaths(g, q, d - 1) : q \in longer}

\* C20: the node-id sequences of the chains _trace_causation_from_article
\* returns for a start s and a max_depth d >= 1 are the simple directed paths
\* from s with 1 to d edges, on cyclic graphs too; no chain repeats a node.
C20_TraceIsSimplePaths ==
    probe.op = "trace" =>
        /\ {NodeIds(probe.result[i]) : i \in 1..Len(probe.result)}
              = SimplePaths(analyzer.graph, <<probe.start_id>>, probe.max_depth)
        /\ \A i \in 1..Len(probe.result) :
              \A j, k \in 1..Len(probe.result[i].nodes) :
                  probe.result[i].nodes[j].article_id = probe.result[i].nodes[k].article_id
                     => j = k

\* C20, reached: a trace from article 1 with max_depth = 2 on a graph with the
\* cycle 1 -> 3 -> 1, where article 3 lies on two branches (1 -> 3 and
\* 1 -> 2 -> 3) and the path 1 -> 2 -> 3 -> 4 is beyond the depth, returned
\* chains of two and of three nodes.
C20_Witness ==
    /\ probe.op = "trace"
    /\ probe.start_id = 1
    /\ probe.max_depth = 2
    /\ {<<1, 2>>, <<1, 3>>, <<2, 3>>, <<3, 1>>, <<3, 4>>} \subseteq DOMAIN analyzer.graph.attr
    /\ \E i \in 1..Len(probe.result) : NodeIds(probe.result[i]) = <<1, 3>>
    /\ \E i \in 1..Len(probe.result) : NodeIds(probe.result[i]) = <<1, 2, 3>>
    /\ \E i \in 1..Len(probe.result) : NodeIds(probe.result[i]) = <<1, 3, 4>>

\* C25: for every relationship r a call returned, Relationship(**r.to_dict())
\* is constructed without error and equals r in every field; and a call that
\* hit the cache returned: it rebuilt the list stored under its key.
C25_ToDictRoundTrip ==
    /\ \A r \in Returned :
          /\ KeywordsAccepted(ToDict(r))
          /\ FromDict(ToDict(r), now) = r
    /\ \A i \in 1..Len(calls) : calls[i].hit => calls[i].outcome = "returned"

\* C26: every relationship a batch of discover_relationships(s) added, and
\* every relationship the call returned, has source_id = s and as target_id
\* an article of the store that was among the candidates of its batch; and
\* the construction of the causation graph never fails on the lookup of an
\* endpoint.
C26_TargetsAmongCandidates ==
    /\ \A i \in 1..Len(calls) :
          /\ \A n \in 1..Len(calls[i].batches) :
                \A k \in 1..Len(calls[i].batches[n].contributed) :
                    LET r == calls[i].batches[n].contributed[k]
                    IN  /\ r.source_id = calls[i].article_id
                        /\ r.target_id \in Range(calls[i].batches[n].candidates)
          /\ \A r \in Range(calls[i].result) :
                /\ r.source_id = calls[i].article_id
                /\ r.target_id \in ArticleIds(articles)
    /\ analyzer.error # "KeyError"

\* The articles the traces of the last build_causation_chain call started
\* from, and the depth they were cut at.
ChainStarts ==
    LET relevant == FindRelevantArticles(articles, chains.query)
    IN  SubSeq(relevant, 1, Min(3, Len(relevant)))

ChainDepth == IF chains.max_depth = 0 THEN MAX_CHAIN_DEPTH ELSE chains.max_depth

\* Every simple path of the graph from one of the starts, within the depth.
ChainPaths ==
    UNION {SimplePaths(analyzer.graph, <<ChainStarts[s]>>, ChainDepth) :
              s \in 1..Len(ChainStarts)}

\* The links of a chain that go back in time.
BackwardLinks(chain) ==
    Cardinality({i \in 1..Len(chain.links) : chain.links[i].temporal_gap_days < 0})

\* The rank score of the chain along a path, times 187500000, term by term:
\* 0.4 * mean impact, 0.3 * mean confidence, 0.2 * min(nodes / 3, 1) and
\* 0.1 * 0.8 ** backward links.
ScoreOfPath(path) ==
    LET n == Len(path)
        impact == SumSeq([i \in 1..n |-> ArticleOf(articles, path[i]).impact_score])
        confidence == SumSeq([i \in 1..(n - 1) |->
                                 analyzer.graph.attr[<<path[i], path[i + 1]>>].confidence])
        backwards == Cardinality({i \in 1..(n - 1) :
                        analyzer.graph.attr[<<path[i], path[i + 1]>>].temporal_gap_days < 0})
    IN  impact * (7500000 \div n)
        + confidence * (562500 \div (n - 1))
        + (IF n < 3 THEN 12500000 * n ELSE 37500000)
        + Power(4, backwards) * (18750000 \div Power(5, backwards))

\* C24: build_causation_chain returns at most 10 chains, in non-increasing
\* order of rank score; they are the highest-scoring of the chains found (the
\* simple paths from the starting articles): a chain is left out only when
\* 10 are returned, and none left out scores strictly higher than a returned
\* one.  Each link that goes back in time multiplies the temporal term of the
\* score by 0.8 and excludes nothing.
C24_TopTenByScore ==
    chains.called =>
        LET result == chains.result
            returned == {NodeIds(result[i]) : i \in 1..Len(result)}
        IN  /\ Len(result) <= 10
            /\ \A i \in 1..(Len(result) - 1) : result[i].score >= result[i + 1].score
            /\ returned \subseteq ChainPaths
            /\ \A i \in 1..Len(result) : result[i].score = ScoreOfPath(NodeIds(result[i]))
            /\ \A p \in ChainPaths \ returned :
                  /\ Len(result) = 10
                  /\ \A i \in 1..Len(result) : result[i].score >= ScoreOfPath(p)

\* C24, reached: more than 10 chains were found, 10 were returned, one of the
\* returned has a link that goes back in time and ranks below a chain of as
\* many nodes without such a link, and a chain left out has none.
C24_Witness ==
    /\ chains.called
    /\ Len(chains.result) = 10
    /\ Cardinality(ChainPaths) > 10
    /\ \E i, j \in 1..Len(chains.result) :
          /\ i < j
          /\ Len(chains.result[i].nodes) = Len(chains.result[j].nodes)
          /\ BackwardLinks(chains.result[i]) = 0
          /\ BackwardLinks(chains.result[j]) > 0
    /\ \E p \in ChainPaths :
          /\ \A i \in 1..Len(chains.result) : NodeIds(chains.result[i]) # p
          /\ \A k \in 1..(Len(p) - 1) :
                analyzer.graph.attr[<<p[k], p[k + 1]>>].temporal_gap_days >= 0

\* The orders of a list without repetitions.
OrdersOf(s) ==
    {p \in [1..Len(s) -> Range(s)] : \A i, j \in 1..Len(s) : p[i] = p[j] => i = j}

\* The graphs with the nodes, edges and attributes of g whose successors are
\* iterated in another order.
Reorderings(g) ==
    LET orders == UNION {OrdersOf(g.adj[n]) : n \in DOMAIN g.adj}
    IN  {[g EXCEPT !.adj = a] :
            a \in {f \in [DOMAIN g.adj -> orders] :
                      \A n \in DOMAIN g.adj : f[n] \in OrdersOf(g.adj[n])}}

\* C21: the list build_causation_chain returned, as node-id sequences in
\* order, is the list the same call returns on the same graph for every
\* other order in which the dfs meets the successors of a node, chains of
\* equal score included.
C21_IndependentOfSuccessorOrder ==
    chains.called =>
        \A g \in Reorderings(analyzer.graph) :
            LET other == BuildCausationChain(articles, g, chains.query, chains.max_depth)
            IN  [i \in 1..Len(other) |-> NodeIds(other[i])]
                   = [i \in 1..Len(chains.result) |-> NodeIds(chains.result[i])]

\* Twice the relevance score as stated: 2 for the title, 1 for the body and
\* 1.5 when the query occurs in any entity.
StatedRelevance(article, query) ==
    (IF Occurs(query, article.title) THEN 4 ELSE 0)
    + (IF Occurs(query, article.content) THEN 2 ELSE 0)
    + (IF \E i \in 1..Len(article.entities) : Occurs(query, article.entities[i])
       THEN 3 ELSE 0)

\* C22: the articles _find_relevant_articles keeps for the query of a call
\* are exactly those whose score (2 for the title, 1 for the body, 1.5 once
\* for the entities) is positive, each once, in descending order of that
\* score, and every chain returned starts at one of the first 3 of them.
C22_RelevanceOrder ==
    chains.called =>
        LET kept == FindRelevantArticles(articles, chains.query)
        IN  /\ Range(kept) = {articles[i].id : i \in
                                 {k \in 1..Len(articles) :
                                     StatedRelevance(articles[k], chains.query) > 0}}
            /\ \A i, j \in 1..Len(kept) : kept[i] = kept[j] => i = j
            /\ \A i \in 1..(Len(kept) - 1) :
                  StatedRelevance(ArticleOf(articles, kept[i]), chains.query)
                     >= StatedRelevance(ArticleOf(articles, kept[i + 1]), chains.query)
            /\ \A c \in 1..Len(chains.result) :
                  \E i \in 1..Min(3, Len(kept)) : NodeIds(chains.result[c])[1] = kept[i]

\* The build recorded in probe, with the discoveries in the order of the
\* store.
InStoreOrder ==
    BuildCausationGraph(articles, probe.cache, probe.at, probe.responses, 1,
                        AddNodes(articles), <<>>)

\* The relationships the discoveries of the recorded build returned.
BuildResults ==
    UNION {Range(calls[i].result) : i \in (probe.earlier + 1)..Len(calls)}

\* C23: with a classifier whose answer depends on the source article alone,
\* building the causation graph with the per-article discoveries in any
\* order, from the same cache, succeeds exactly when it succeeds in the
\* order of the store, and then gives the same nodes, the same edges and the
\* same attributes on every edge; the edges are the source-target pairs of
\* the relationships the discoveries returned.
C23_GraphIndependentOfOrder ==
    probe.op = "construct" =>
        /\ (analyzer.state = "ready") = (InStoreOrder.error = "none")
        /\ analyzer.state = "ready" =>
              /\ Range(analyzer.graph.nodes) = Range(InStoreOrder.graph.nodes)
              /\ DOMAIN analyzer.graph.attr = DOMAIN InStoreOrder.graph.attr
              /\ \A e \in DOMAIN analyzer.graph.attr :
                    analyzer.graph.attr[e] = InStoreOrder.graph.attr[e]
              /\ DOMAIN analyzer.graph.attr
                    = {<<r.source_id, r.target_id>> : r \in BuildResults}

\* C23, reached: the cache was in use, the discoveries ran in the reverse of
\* the store order, every article's discovery returned relationships, and
\* the graph was built with edges from all three sources.
C23_Witness ==
    /\ probe.op = "construct"
    /\ CacheEnabled(probe.cache)
    /\ probe.order = <<3, 2, 1>>
    /\ analyzer.state = "ready"
    /\ \A i \in (probe.earlier + 1)..Len(calls) : calls[i].result # <<>>
    /\ {e[1] : e \in DOMAIN analyzer.graph.attr} = ArticleIds(articles)

\* The relationship graph of the recorded find_relationship_chains call: the
\* pairs (x, target) of discover_relationships(x, 10) for every article x.
RelationshipGraph ==
    UNION {{<<articles[k].id, r.target_id>> :
               r \in Range(DiscoverRelationships(articles, probe.cache, probe.at,
                                                 articles[k].id, 10,
                                                 probe.responses[k]).result)} :
              k \in 1..Len(articles)}

\* The ids reached from s along at most k edges.
RECURSIVE ReachedWithin(_, _, _)
ReachedWithin(edges, s, k) ==
    IF k = 0 THEN {s}
    ELSE LET near == ReachedWithin(edges, s, k - 1)
         IN  near \cup {e[2] : e \in {x \in edges : x[1] \in near}}

\* C27: find_relationship_chains(start, end, max_depth) between articles of
\* the store returns; its list is non-empty exactly when the relationship
\* graph has a directed path from start to end of at most max_depth nodes;
\* every path returned starts at start, ends at end, repeats no id, follows
\* edges of the graph and has at most max_depth ids; at most 5 are returned.
C27_PathsFoundIffReachable ==
    probe.op = "paths" =>
        /\ probe.outcome = "returned"
        /\ (probe.paths # <<>>)
              = (probe.end_id \in ReachedWithin(RelationshipGraph, probe.start_id,
                                                 probe.max_depth - 1))
        /\ Len(probe.paths) <= 5
        /\ \A i \in 1..Len(probe.paths) :
              LET path == probe.paths[i]
              IN  /\ path[1] = probe.start_id
                  /\ path[Len(path)] = probe.end_id
                  /\ Len(path) <= probe.max_depth
                  /\ \A j, k \in 1..Len(path) : path[j] = path[k] => j = k
                  /\ \A j \in 1..(Len(path) - 1) :
                        <<path[j], path[j + 1]>> \in RelationshipGraph

\* C29: after any ingest_article calls, by either of two engines on the same
\* news file, on a file whose ids were pairwise distinct: the ids in the
\* file are pairwise distinct, every ingested article got an id greater than
\* every id the file held before the call, and every ingested article is in
\* the file.
C29_IngestionKeepsIdsAndArticles ==
    /\ \A i, j \in 1..Len(news_file) : news_file[i].id = news_file[j].id => i = j
    /\ \A k \in 1..Len(ingested) :
          /\ \A id \in ingested[k].before : ingested[k].article.id > id
          /\ ingested[k].article \in Range(news_file)

\* C30: after any add_embeddings and clear calls the id map, the index and
\* the stored embeddings have the same number of rows, and get_embedding of
\* an id of the id map returns the normalized row added with that id (the
\* row the index holds at the place of the id).
C30_IndexAligned ==
    /\ Len(faiss_index.id_map) = Len(faiss_index.index)
    /\ Len(faiss_index.embeddings) = Len(faiss_index.index)
    /\ (fetched.called /\ fetched.article_id \in Range(faiss_index.id_map)) =>
          /\ fetched.outcome = "returned"
          /\ \E i \in 1..Len(faiss_index.id_map) :
                /\ faiss_index.id_map[i] = fetched.article_id
                /\ fetched.value = faiss_index.index[i]

====
